---- MODULE Spec2Model ----
(***************************************************************************)
(* Conversation processing engine of the customer support chatbot.         *)
(*                                                                         *)
(* Text is a sequence of one-character strings, so that lower-casing,      *)
(* substring containment and the word-boundary regular expressions of      *)
(* app/chatbot/utils.py are computed character by character.               *)
(***************************************************************************)
EXTENDS Integers, Sequences, FiniteSets, TLC

(***************************************************************************)
(* Bounds of the model.                                                    *)
(***************************************************************************)
\* process_message / handle_message invocations in one behaviour
MaxCalls == 2
\* the MAX_CONTEXT_MESSAGES setting the model runs with (settings.py:32
\* reads it from the environment; its default is 10)
max_context_messages == 2
\* longest padding put around a keyword when messages are enumerated
MaxPad == 1
\* longest conversation history handed to OpenAIClient.generate_response
MaxHistory == 3
\* most words of a message handed to classify_intent and extract_entities
MaxWords == 2
\* most response times handed to _percentile
MaxData == 5
\* most entries the metrics collector records, interactions and feedback
\* together
MaxRecorded == 3
\* the last day the metrics collector is followed to, counted from its start
MaxDay == 1

(***************************************************************************)
(* Characters and strings.                                                 *)
(***************************************************************************)
UpperLetters ==
    <<"A","B","C","D","E","F","G","H","I","J","K","L","M",
      "N","O","P","Q","R","S","T","U","V","W","X","Y","Z">>

LowerLetters ==
    <<"a","b","c","d","e","f","g","h","i","j","k","l","m",
      "n","o","p","q","r","s","t","u","v","w","x","y","z">>

Digits == {"0","1","2","3","4","5","6","7","8","9"}

Range(s) == {s[i] : i \in 1..Len(s)}

\* str.lower() on one character
LowerChar(c) ==
    IF c \in Range(UpperLetters)
    THEN LowerLetters[CHOOSE k \in 1..26 : UpperLetters[k] = c]
    ELSE c

\* str.upper() on one character
UpperChar(c) ==
    IF c \in Range(LowerLetters)
    THEN UpperLetters[CHOOSE k \in 1..26 : LowerLetters[k] = c]
    ELSE c

\* str.lower()
Lower(text) == [i \in 1..Len(text) |-> LowerChar(text[i])]

\* str.upper()
Upper(text) == [i \in 1..Len(text) |-> UpperChar(text[i])]

\* Python's `needle in hay` on strings
Contains(hay, needle) ==
    \E i \in 1..(Len(hay) - Len(needle) + 1) :
        SubSeq(hay, i, i + Len(needle) - 1) = needle

\* \w of the re module (ASCII letters, digits, underscore)
IsWordChar(c) ==
    c \in Range(LowerLetters) \cup Range(UpperLetters) \cup Digits \cup {"_"}

\* is position k of text a word character (positions outside the text are not)
WordAt(text, k) == k \in 1..Len(text) /\ IsWordChar(text[k])

\* \b just before position p
Boundary(text, p) == WordAt(text, p - 1) # WordAt(text, p)

\* \b word \b matched with the word starting at position i
MatchAt(text, i, word) ==
    /\ i + Len(word) - 1 <= Len(text)
    /\ SubSeq(text, i, i + Len(word) - 1) = word
    /\ Boundary(text, i)
    /\ Boundary(text, i + Len(word))

\* the alternatives of \b(w1|w2|...)\b that match at i, in the order the
\* regular expression tries them
MatchingAlts(text, i, alts) ==
    {k \in 1..Len(alts) : MatchAt(text, i, alts[k])}

FirstAlt(text, i, alts) ==
    CHOOSE k \in MatchingAlts(text, i, alts) :
        \A j \in MatchingAlts(text, i, alts) : k <= j

\* len(re.findall(r"\b(w1|w2|...)\b", text)): non-overlapping matches
\* scanned from the left, starting at position i
RECURSIVE CountMatches(_, _, _)
CountMatches(text, i, alts) ==
    IF i > Len(text) THEN 0
    ELSE IF MatchingAlts(text, i, alts) = {}
         THEN CountMatches(text, i + 1, alts)
         ELSE 1 + CountMatches(text, i + Len(alts[FirstAlt(text, i, alts)]), alts)

\* re.search(r"\b(w1|w2|...)\b", text)
SearchAlts(text, alts) ==
    \E i \in 1..Len(text) : MatchingAlts(text, i, alts) # {}

\* re.search(r"\b(a1|a2|...)\b.*\b(b1|b2|...)\b", text); "." matches any
\* character but a newline
SearchAltsThenAlts(text, first, second) ==
    \E i \in 1..Len(text), k \in 1..Len(first) :
        /\ MatchAt(text, i, first[k])
        /\ \E j \in (i + Len(first[k]))..Len(text) :
              /\ MatchingAlts(text, j, second) # {}
              /\ \A x \in (i + Len(first[k]))..(j - 1) : text[x] # "\n"

IsSpace(c) == c \in {" ", "\t", "\n", "\r"}

\* str.split(): the maximal runs of non-whitespace characters, in order
RECURSIVE SplitFrom(_, _, _)
SplitFrom(text, i, word) ==
    IF i > Len(text)
    THEN IF word = <<>> THEN <<>> ELSE <<word>>
    ELSE IF IsSpace(text[i])
         THEN (IF word = <<>> THEN <<>> ELSE <<word>>) \o SplitFrom(text, i + 1, <<>>)
         ELSE SplitFrom(text, i + 1, Append(word, text[i]))

Split(text) == SplitFrom(text, 1, <<>>)

\* str.strip() leaves the empty string
IsBlank(text) == \A i \in 1..Len(text) : IsSpace(text[i])

(***************************************************************************)
(* Regular expressions made of \b, of character classes with greedy        *)
(* repetition counts and of optional groups, as extract_entities uses      *)
(* them.  A pattern is a sequence of elements:                             *)
(*   [kind |-> "b"]                          the assertion \b              *)
(*   [kind |-> "class", chars, min, max]     [chars]{min,max}; a negative  *)
(*                                           max stands for no upper limit *)
(*   [kind |-> "opt", sub]                   (?:sub)?                      *)
(***************************************************************************)
\* how many characters from position i on belong to chars, up to max
RunLength(text, i, chars, max) ==
    LET limit == IF max < 0 THEN Len(text) ELSE max
    IN  CHOOSE n \in 0..limit :
            /\ \A j \in 0..(n - 1) : i + j <= Len(text) /\ text[i + j] \in chars
            /\ n = limit \/ i + n > Len(text) \/ text[i + n] \notin chars

\* the positions at which a match of pat[k..] begun at i can end, in the
\* order the backtracking matcher tries them: a greedy count first takes as
\* many characters as it can, an optional group is first tried present
RECURSIVE Ends(_, _, _, _), EndsByCount(_, _, _, _, _), EndsAfter(_, _, _, _, _)
Ends(text, i, pat, k) ==
    IF k > Len(pat) THEN <<i>>
    ELSE CASE pat[k].kind = "b" ->
                 IF Boundary(text, i) THEN Ends(text, i, pat, k + 1) ELSE <<>>
           [] pat[k].kind = "class" ->
                 EndsByCount(text, i, pat, k,
                             RunLength(text, i, pat[k].chars, pat[k].max))
           [] pat[k].kind = "opt" ->
                 EndsAfter(text, Ends(text, i, pat[k].sub, 1), 1, pat, k + 1)
                 \o Ends(text, i, pat, k + 1)

EndsByCount(text, i, pat, k, n) ==
    IF n < pat[k].min THEN <<>>
    ELSE Ends(text, i + n, pat, k + 1) \o EndsByCount(text, i, pat, k, n - 1)

EndsAfter(text, starts, s, pat, k) ==
    IF s > Len(starts) THEN <<>>
    ELSE Ends(text, starts[s], pat, k) \o EndsAfter(text, starts, s + 1, pat, k)

\* re.findall(pat, text) for a pattern with at most one group, which spans
\* the whole match: the non-overlapping matches scanned from the left,
\* starting at position i
RECURSIVE FindAll(_, _, _)
FindAll(text, i, pat) ==
    IF i > Len(text) THEN <<>>
    ELSE LET ends == Ends(text, i, pat, 1)
         IN  IF ends = <<>>
             THEN FindAll(text, i + 1, pat)
             ELSE <<SubSeq(text, i, ends[1] - 1)>> \o FindAll(text, ends[1], pat)

(***************************************************************************)
(* Messages and turns.                                                     *)
(***************************************************************************)
\* the messages the callers send, by name
Messages == {"hi", "Manager cancel", "cancel my return", " "}

\* the characters of each message
Text == [m \in Messages |->
    CASE m = "hi"               -> <<"h","i">>
      [] m = "Manager cancel"   -> <<"M","a","n","a","g","e","r"," ","c","a","n","c","e","l">>
      [] m = "cancel my return" -> <<"c","a","n","c","e","l"," ","m","y"," ","r","e","t","u","r","n">>
      [] m = " "                -> <<" ">>]

\* the messages sent to POST /chat; the WebSocket receives every message
HttpMessages == Messages \ {" "}

\* the texts of the known messages
KnownTexts == {Text[m] : m \in Messages}

\* A stored turn is [role, content, turn]. The content says what kind of text
\* it is and which one; turn is the call that created the turn and stands for
\* its timestamp.
UserContent(m) == [kind |-> "message", arg |-> m]

\* the characters of a user turn's content
ContentText(content) == Text[content.arg]

(***************************************************************************)
(* classify_intent (app/chatbot/utils.py).                                 *)
(***************************************************************************)
\* the registry, in declaration order; each pattern is one alternation
intent_patterns == <<
    \* greeting: \b(hello|hi|hey|good morning|good afternoon|good evening)\b
    [intent |-> "greeting", patterns |-> <<<<<<"h","e","l","l","o">>, <<"h","i">>, <<"h","e","y">>, <<"g","o","o","d"," ","m","o","r","n","i","n","g">>, <<"g","o","o","d"," ","a","f","t","e","r","n","o","o","n">>, <<"g","o","o","d"," ","e","v","e","n","i","n","g">>>>>>],
    \* order_status: \b(track|tracking|order|delivery|shipped|shipping)\b
    [intent |-> "order_status", patterns |-> <<<<<<"t","r","a","c","k">>, <<"t","r","a","c","k","i","n","g">>, <<"o","r","d","e","r">>, <<"d","e","l","i","v","e","r","y">>, <<"s","h","i","p","p","e","d">>, <<"s","h","i","p","p","i","n","g">>>>>>],
    \* billing: \b(bill|charge|payment|invoice|refund|money|cost|price)\b
    [intent |-> "billing", patterns |-> <<<<<<"b","i","l","l">>, <<"c","h","a","r","g","e">>, <<"p","a","y","m","e","n","t">>, <<"i","n","v","o","i","c","e">>, <<"r","e","f","u","n","d">>, <<"m","o","n","e","y">>, <<"c","o","s","t">>, <<"p","r","i","c","e">>>>>>],
    \* returns: \b(return|exchange|defective|damaged|broken|wrong item)\b
    [intent |-> "returns", patterns |-> <<<<<<"r","e","t","u","r","n">>, <<"e","x","c","h","a","n","g","e">>, <<"d","e","f","e","c","t","i","v","e">>, <<"d","a","m","a","g","e","d">>, <<"b","r","o","k","e","n">>, <<"w","r","o","n","g"," ","i","t","e","m">>>>>>],
    \* account: \b(password|login|account|profile|settings|username)\b
    [intent |-> "account", patterns |-> <<<<<<"p","a","s","s","w","o","r","d">>, <<"l","o","g","i","n">>, <<"a","c","c","o","u","n","t">>, <<"p","r","o","f","i","l","e">>, <<"s","e","t","t","i","n","g","s">>, <<"u","s","e","r","n","a","m","e">>>>>>],
    \* product_info: \b(product|item|specification|details|features|size)\b
    [intent |-> "product_info", patterns |-> <<<<<<"p","r","o","d","u","c","t">>, <<"i","t","e","m">>, <<"s","p","e","c","i","f","i","c","a","t","i","o","n">>, <<"d","e","t","a","i","l","s">>, <<"f","e","a","t","u","r","e","s">>, <<"s","i","z","e">>>>>>],
    \* complaint: \b(complaint|dissatisfied|problem|issue|frustrated|angry|terrible)\b
    [intent |-> "complaint", patterns |-> <<<<<<"c","o","m","p","l","a","i","n","t">>, <<"d","i","s","s","a","t","i","s","f","i","e","d">>, <<"p","r","o","b","l","e","m">>, <<"i","s","s","u","e">>, <<"f","r","u","s","t","r","a","t","e","d">>, <<"a","n","g","r","y">>, <<"t","e","r","r","i","b","l","e">>>>>>],
    \* compliment: \b(great|excellent|amazing|satisfied|happy|love|perfect)\b
    [intent |-> "compliment", patterns |-> <<<<<<"g","r","e","a","t">>, <<"e","x","c","e","l","l","e","n","t">>, <<"a","m","a","z","i","n","g">>, <<"s","a","t","i","s","f","i","e","d">>, <<"h","a","p","p","y">>, <<"l","o","v","e">>, <<"p","e","r","f","e","c","t">>>>>>],
    \* technical_support: \b(error|bug|not working|broken|crash|technical)\b
    [intent |-> "technical_support", patterns |-> <<<<<<"e","r","r","o","r">>, <<"b","u","g">>, <<"n","o","t"," ","w","o","r","k","i","n","g">>, <<"b","r","o","k","e","n">>, <<"c","r","a","s","h">>, <<"t","e","c","h","n","i","c","a","l">>>>>>],
    \* cancellation: \b(cancel|cancellation|stop|remove)\b
    [intent |-> "cancellation", patterns |-> <<<<<<"c","a","n","c","e","l">>, <<"c","a","n","c","e","l","l","a","t","i","o","n">>, <<"s","t","o","p">>, <<"r","e","m","o","v","e">>>>>>]
  >>

\* score of registry entry k: the match counts of its patterns, summed
RECURSIVE SumMatches(_, _, _)
SumMatches(text, patterns, p) ==
    IF p > Len(patterns) THEN 0
    ELSE CountMatches(text, 1, patterns[p]) + SumMatches(text, patterns, p + 1)

intent_scores(message_lower) ==
    [k \in 1..Len(intent_patterns) |->
        SumMatches(message_lower, intent_patterns[k].patterns, 1)]

\* max(intent_scores, key=intent_scores.get): the dict iterates in insertion
\* order and max keeps the first maximal key
best_intent_LastWins(scores) ==
    CHOOSE k \in DOMAIN scores :
        /\ \A j \in DOMAIN scores : scores[j] <= scores[k]
        /\ \A j \in DOMAIN scores : scores[j] = scores[k] => j <= k

best_intent(scores) ==
    CHOOSE k \in DOMAIN scores :
        /\ \A j \in DOMAIN scores : scores[j] <= scores[k]
        /\ \A j \in DOMAIN scores : scores[j] = scores[k] => k <= j

ClassifyText(message) ==
    LET scores == intent_scores(Lower(message))
        best   == best_intent(scores)
    IN  IF scores[best] > 0 THEN intent_patterns[best].intent ELSE "general"

\* the intents of the known messages, computed once
IntentTable == [t \in KnownTexts |-> ClassifyText(t)] @@ <<>>

\* classify_intent; the table only saves recomputing a known message
classify_intent(message) ==
    IF message \in KnownTexts THEN IntentTable[message] ELSE ClassifyText(message)

(***************************************************************************)
(* The knowledge base: the default of _load_knowledge_base (core.py).      *)
(***************************************************************************)
knowledge_base == [
    faqs |-> <<
        [question |-> <<"H","o","w"," ","d","o"," ","I"," ","t","r","a","c","k"," ","m","y"," ","o","r","d","e","r","?">>,
         answer   |-> "You can track your order by logging into your account"],
        [question |-> <<"W","h","a","t"," ","i","s"," ","y","o","u","r"," ","r","e","t","u","r","n"," ","p","o","l","i","c","y","?">>,
         answer   |-> "We offer a 30-day return policy for most items"],
        [question |-> <<"H","o","w"," ","d","o"," ","I"," ","c","a","n","c","e","l"," ","m","y"," ","o","r","d","e","r","?">>,
         answer   |-> "You can cancel your order within 1 hour of placing it"]
      >>,
    escalation_keywords |-> <<
        <<"s","p","e","a","k"," ","t","o"," ","h","u","m","a","n">>,
        <<"m","a","n","a","g","e","r">>,
        <<"c","o","m","p","l","a","i","n","t">>,
        <<"f","r","u","s","t","r","a","t","e","d">>,
        <<"a","n","g","r","y">>
      >>,
    business_info |-> [company_name |-> "Your Company"]
  ]

(***************************************************************************)
(* should_escalate (app/chatbot/utils.py).                                 *)
(***************************************************************************)
frustration_patterns == <<
    \* \b(frustrated|angry|mad|upset|annoyed)\b
    <<<<"f","r","u","s","t","r","a","t","e","d">>, <<"a","n","g","r","y">>, <<"m","a","d">>, <<"u","p","s","e","t">>, <<"a","n","n","o","y","e","d">>>>,
    \* \b(terrible|awful|horrible|worst)\b
    <<<<"t","e","r","r","i","b","l","e">>, <<"a","w","f","u","l">>, <<"h","o","r","r","i","b","l","e">>, <<"w","o","r","s","t">>>>,
    \* \b(unacceptable|ridiculous|stupid)\b
    <<<<"u","n","a","c","c","e","p","t","a","b","l","e">>, <<"r","i","d","i","c","u","l","o","u","s">>, <<"s","t","u","p","i","d">>>>
  >>

\* \b(cancel|refund|money back)\b.*\b(now|immediately)\b
urgency_first == <<<<"c","a","n","c","e","l">>, <<"r","e","f","u","n","d">>, <<"m","o","n","e","y"," ","b","a","c","k">>>>

urgency_second == <<<<"n","o","w">>, <<"i","m","m","e","d","i","a","t","e","l","y">>>>

\* a keyword rule that matches whole words only
KeywordRule_WholeWord(message_lower, kb) ==
    \E k \in 1..Len(kb.escalation_keywords) :
        SearchAlts(message_lower, <<Lower(kb.escalation_keywords[k])>>)

\* rule 1: a keyword of the knowledge base is a substring of the message,
\* both lower-cased
KeywordRule(message_lower, kb) ==
    \E k \in 1..Len(kb.escalation_keywords) :
        Contains(message_lower, Lower(kb.escalation_keywords[k]))

\* rule 2: one of the frustration patterns is found in the message
FrustrationRule(message_lower) ==
    \/ \E p \in 1..Len(frustration_patterns) :
          SearchAlts(message_lower, frustration_patterns[p])
    \/ SearchAltsThenAlts(message_lower, urgency_first, urgency_second)

\* the history length above which rule 3 escalates
EscalateAfterLength == 10

\* the number of most recent turns rule 4 looks at
RecentWindow == 6

\* the number of user turns rule 4 needs among them
RepeatedUserTurns == 3

\* rule 3: many back-and-forth messages
LengthRule_AtLeast(conversation_history) ==
    Len(conversation_history) >= EscalateAfterLength

LengthRule(conversation_history) ==
    Len(conversation_history) > EscalateAfterLength

IsUserTurn(msg) == msg.role = "user"

\* rule 4: the recent user turns all have one escalation-prone intent
RepeatedIssueRule(conversation_history) ==
    /\ Len(conversation_history) >= RecentWindow
    /\ LET n               == Len(conversation_history)
           recent_messages == SubSeq(conversation_history, n - RecentWindow + 1, n)
           user_messages   == SelectSeq(recent_messages, IsUserTurn)
           intents         == [i \in 1..Len(user_messages) |->
                                  classify_intent(ContentText(user_messages[i].content))]
       IN  /\ Len(user_messages) >= RepeatedUserTurns
           /\ Cardinality(Range(intents)) = 1
           /\ intents[1] \in {"complaint", "billing", "returns"}

\* rules 1 and 2 of the known messages, computed once
MessageRuleTable ==
    [t \in KnownTexts |->
        KeywordRule(Lower(t), knowledge_base) \/ FrustrationRule(Lower(t))] @@ <<>>

\* rules 1 and 2; the table only saves recomputing a known message
MessageRules(message, kb) ==
    IF message \in KnownTexts /\ kb = knowledge_base
    THEN MessageRuleTable[message]
    ELSE KeywordRule(Lower(message), kb) \/ FrustrationRule(Lower(message))

should_escalate(message, conversation_history, kb) ==
    \/ MessageRules(message, kb)
    \/ LengthRule(conversation_history)
    \/ RepeatedIssueRule(conversation_history)

(***************************************************************************)
(* CustomerSupportChatbot (app/chatbot/core.py): the pure parts.           *)
(***************************************************************************)
\* the FAQs one of whose question words (longer than 3 characters) is a
\* substring of the lower-cased message
MatchingFaqs(message, kb) ==
    {f \in 1..Len(kb.faqs) :
        \E w \in Range(Split(Lower(kb.faqs[f].question))) :
            Len(w) > 3 /\ Contains(Lower(message), w)}

\* the value standing for Python's None
None == [kind |-> "none", arg |-> ""]

\* a lookup that keeps the last matching FAQ
FirstFaqAnswer_KeepsLast(message) ==
    LET hits == MatchingFaqs(message, knowledge_base)
    IN  IF hits = {} THEN None
        ELSE [kind |-> "faq_answer",
              arg  |-> knowledge_base.faqs[CHOOSE f \in hits : \A g \in hits : f >= g].answer]

\* the answer of the first matching FAQ, or None
FirstFaqAnswer(message) ==
    LET hits == MatchingFaqs(message, knowledge_base)
    IN  IF hits = {} THEN None
        ELSE [kind |-> "faq_answer",
              arg  |-> knowledge_base.faqs[CHOOSE f \in hits : \A g \in hits : f <= g].answer]

\* the lookups of the known messages, computed once
FaqTable == [t \in KnownTexts |-> FirstFaqAnswer(t)] @@ <<>>

\* _check_knowledge_base: the answer of the first matching FAQ, or None
_check_knowledge_base(message, intent) ==
    IF message \in KnownTexts THEN FaqTable[message] ELSE FirstFaqAnswer(message)

\* _handle_escalation: the escalation text, which names the intent
_handle_escalation(user_id, intent) == [kind |-> "escalation", arg |-> intent]

(***************************************************************************)
(* extract_entities (app/chatbot/utils.py).                                *)
(***************************************************************************)
Letters == Range(LowerLetters) \cup Range(UpperLetters)

WordBoundary == [kind |-> "b"]

Class(chars, min, max) == [kind |-> "class", chars |-> chars, min |-> min, max |-> max]

Optional(sub) == [kind |-> "opt", sub |-> sub]

\* \b([A-Z0-9]{6,20})\b
order_pattern ==
    <<WordBoundary, Class(Range(UpperLetters) \cup Digits, 6, 20), WordBoundary>>

\* \b[A-Za-z0-9._%+-]+@[A-Za-z0-9.-]+\.[A-Z|a-z]{2,}\b
email_pattern ==
    <<WordBoundary,
      Class(Letters \cup Digits \cup {".", "_", "%", "+", "-"}, 1, -1),
      Class({"@"}, 1, 1),
      Class(Letters \cup Digits \cup {".", "-"}, 1, -1),
      Class({"."}, 1, 1),
      Class(Letters \cup {"|"}, 2, -1),
      WordBoundary>>

\* (\(?\d{3}\)?[-.\s]?\d{3}[-.\s]?\d{4})
phone_pattern ==
    <<Class({"("}, 0, 1), Class(Digits, 3, 3), Class({")"}, 0, 1),
      Class({"-", ".", " ", "\t", "\n", "\r"}, 0, 1), Class(Digits, 3, 3),
      Class({"-", ".", " ", "\t", "\n", "\r"}, 0, 1), Class(Digits, 4, 4)>>

\* \$\d+(?:\.\d{2})?
money_pattern ==
    <<Class({"$"}, 1, 1), Class(Digits, 1, -1),
      Optional(<<Class({"."}, 1, 1), Class(Digits, 2, 2)>>)>>

date_patterns == <<
    \* \b\d{1,2}/\d{1,2}/\d{4}\b
    <<WordBoundary, Class(Digits, 1, 2), Class({"/"}, 1, 1), Class(Digits, 1, 2),
      Class({"/"}, 1, 1), Class(Digits, 4, 4), WordBoundary>>,
    \* \b\d{4}-\d{2}-\d{2}\b
    <<WordBoundary, Class(Digits, 4, 4), Class({"-"}, 1, 1), Class(Digits, 2, 2),
      Class({"-"}, 1, 1), Class(Digits, 2, 2), WordBoundary>>,
    \* \b\d{1,2}-\d{1,2}-\d{4}\b
    <<WordBoundary, Class(Digits, 1, 2), Class({"-"}, 1, 1), Class(Digits, 1, 2),
      Class({"-"}, 1, 1), Class(Digits, 4, 4), WordBoundary>>
  >>

product_keywords == <<
    <<"l","a","p","t","o","p">>, <<"p","h","o","n","e">>,
    <<"t","a","b","l","e","t">>, <<"h","e","a","d","p","h","o","n","e","s">>,
    <<"k","e","y","b","o","a","r","d">>, <<"m","o","u","s","e">>,
    <<"m","o","n","i","t","o","r">>, <<"w","a","t","c","h">>
  >>

\* dates: the matches of the first pattern, then those of the second, ...
RECURSIVE ExtendDates(_, _)
ExtendDates(message, p) ==
    IF p > Len(date_patterns) THEN <<>>
    ELSE FindAll(message, 1, date_patterns[p]) \o ExtendDates(message, p + 1)

IsMentioned(message_lower, keyword) == Contains(message_lower, Lower(keyword))

\* found_products: the keywords the message holds, in the order of the list
found_products(message) ==
    LET message_lower == Lower(message)
        Mentioned(keyword) == IsMentioned(message_lower, keyword)
    IN  SelectSeq(product_keywords, Mentioned)

\* if matches: entities[key] = matches
SetIfAny_Always(entities, key, matches) ==
    entities @@ (key :> matches)

SetIfAny(entities, key, matches) ==
    IF matches # <<>> THEN entities @@ (key :> matches) ELSE entities

extract_entities(message) ==
    LET e0 == [k \in {} |-> <<>>]
        e1 == SetIfAny(e0, "order_numbers", FindAll(Upper(message), 1, order_pattern))
        e2 == SetIfAny(e1, "emails", FindAll(message, 1, email_pattern))
        e3 == SetIfAny(e2, "phone_numbers", FindAll(message, 1, phone_pattern))
        e4 == SetIfAny(e3, "amounts", FindAll(message, 1, money_pattern))
        e5 == SetIfAny(e4, "dates", ExtendDates(message, 1))
    IN  SetIfAny(e5, "products", found_products(message))

(***************************************************************************)
(* OpenAIClient.generate_response (app/chatbot/openai_client.py): what the *)
(* call returns for each way the completion request can end.               *)
(***************************************************************************)
\* the typed failures of the completion service
Failures == {"rate_limited", "auth_failed", "api_error", "unexpected_error"}

\* the ways a completion request ends
Outcomes == {"ok"} \cup Failures

generate_response(outcome) ==
    CASE outcome = "ok" ->
            [kind |-> "generated", arg |-> "generated text"]
      [] outcome = "rate_limited" ->
            [kind |-> "fallback",
             arg  |-> "I'm experiencing high demand right now. Please try again in a moment."]
      [] outcome = "auth_failed" ->
            [kind |-> "fallback",
             arg  |-> "I'm having trouble connecting to my AI service. Please contact support."]
      [] outcome = "api_error" ->
            [kind |-> "fallback",
             arg  |-> "I'm experiencing technical difficulties. Please try again or contact support."]
      [] outcome = "unexpected_error" ->
            [kind |-> "fallback",
             arg  |-> "I apologize for the inconvenience. Please try again or contact our support team."]

(***************************************************************************)
(* State.                                                                  *)
(***************************************************************************)
VARIABLES
    \* chatbot instance -> (user id -> list of turns): conversation_memory of
    \* the chatbot of app/api/routes.py and of the ConnectionManager's
    conversation_memory,
    \* the chat_with_bot and handle_message invocations, in submission order,
    \* each with its locals and, once it has returned, its result
    calls,
    \* MetricsCollector.metrics_data["interactions"] of app/api/routes.py
    interactions,
    \* MetricsCollector.daily_stats
    daily_stats,
    \* the arguments and the result of one should_escalate evaluation
    esc_message, esc_history, esc_result,
    \* one OpenAIClient.generate_response call up to its completion request:
    \* its arguments, the messages it assembled and the messages it sends
    bud_request, bud_messages, bud_payload,
    \* the analysis of one message (core.py lines 96-97): how far it got, the
    \* message, the result of classify_intent and that of extract_entities
    txt_pc, txt_message, txt_intent, txt_entities,
    \* one _percentile call: how far it got, its arguments and its result
    pct_pc, pct_data, pct_percentile, pct_value,
    \* the metrics collector on its own: the day datetime.now() falls on,
    \* metrics_data["interactions"], feedback_data and the report get_metrics
    \* has computed for its caller
    met_today, met_interactions, met_feedback, met_report,
    \* a call of clear_conversation_history, get_conversation_history or
    \* get_conversation_summary on routes.chatbot and what it returns
    api_call,
    \* the metrics collector with the time of day: datetime.now(),
    \* metrics_data["interactions"], feedback_data and daily_stats
    ret_now, ret_interactions, ret_feedback, ret_daily_stats

vars == <<conversation_memory, calls, interactions, daily_stats,
          esc_message, esc_history, esc_result,
          bud_request, bud_messages, bud_payload,
          txt_pc, txt_message, txt_intent, txt_entities,
          pct_pc, pct_data, pct_percentile, pct_value,
          met_today, met_interactions, met_feedback, met_report,
          api_call,
          ret_now, ret_interactions, ret_feedback, ret_daily_stats>>

pipeline_vars == <<conversation_memory, calls, interactions, daily_stats>>

escalation_vars == <<esc_message, esc_history, esc_result>>

budget_vars == <<bud_request, bud_messages, bud_payload>>

text_vars == <<txt_pc, txt_message, txt_intent, txt_entities>>

percentile_vars == <<pct_pc, pct_data, pct_percentile, pct_value>>

metrics_vars == <<met_today, met_interactions, met_feedback, met_report>>

memory_api_vars == <<api_call>>

retention_vars == <<ret_now, ret_interactions, ret_feedback, ret_daily_stats>>

\* the variables of the single-function evaluations, which the pipeline
\* leaves alone
function_vars == <<escalation_vars, budget_vars, text_vars, percentile_vars,
                   metrics_vars, memory_api_vars, retention_vars>>

\* a messages list that is not assigned yet (an assigned one holds the system
\* prompt and the current message at least)
Unset == <<>>

\* the user identifiers of the callers
Users == {"alice", "bob"}

\* the two CustomerSupportChatbot instances: routes.chatbot serves the HTTP
\* routes, manager.chatbot the WebSocket endpoint
Chatbots == {"routes", "manager"}

\* the calendar date of every recorded timestamp
Today == "2024-01-01"

\* before get_metrics has returned anything
NoMetrics == [days |-> 0]

\* api_call between the calls of the conversation memory interface
NoApiCall == [op |-> "none"]

(***************************************************************************)
(* Conversation memory.                                                    *)
(***************************************************************************)
\* self.conversation_memory.get(user_id, [])
get_conversation_history(memory, user_id) ==
    IF user_id \in DOMAIN memory THEN memory[user_id] ELSE <<>>

\* self.conversation_memory[user_id] = history
SetHistory(memory, user_id, history) ==
    [u \in DOMAIN memory \cup {user_id} |->
        IF u = user_id THEN history ELSE memory[u]]

\* no truncation at all
Truncate_Never(history) ==
    history

\* history[:max_history]: the oldest turns are kept
Truncate_KeepsOldest(history) ==
    IF Len(history) > max_context_messages
    THEN SubSeq(history, 1, max_context_messages)
    ELSE history

\* history[-max_history:] when the history is longer than max_history
Truncate(history) ==
    IF Len(history) > max_context_messages
    THEN SubSeq(history, Len(history) - max_context_messages + 1, Len(history))
    ELSE history

\* an append whose truncation has not run yet
AppendUserTurn_NotYetTruncated(memory, user_id, turn) ==
    SetHistory(memory, user_id, Append(get_conversation_history(memory, user_id), turn))

\* process_message, lines 79-93: get or create the entry, append the user
\* turn, keep the most recent max_context_messages turns
AppendUserTurn(memory, user_id, turn) ==
    SetHistory(memory, user_id,
               Truncate(Append(get_conversation_history(memory, user_id), turn)))

\* process_message, lines 110-115: append to the entry, which must exist
AppendAssistantTurn(memory, user_id, turn) ==
    SetHistory(memory, user_id, Append(memory[user_id], turn))

\* a clear that empties the whole map
DeleteEntry_ClearsAll(memory, user_id) == [u \in {} |-> <<>>]

\* del self.conversation_memory[user_id]
DeleteEntry(memory, user_id) ==
    [u \in DOMAIN memory \ {user_id} |-> memory[u]]

(***************************************************************************)
(* process_message.                                                        *)
(***************************************************************************)
\* the result while the call has not returned
NoResult ==
    [response |-> None, intent |-> "", response_type |-> "",
     response_time |-> 0, escalated |-> FALSE, error |-> FALSE]

\* the dictionary of the except branch
ErrorResult ==
    [response      |-> [kind |-> "apology",
                        arg  |-> "I apologize, but I'm experiencing technical difficulties."],
     intent        |-> "error",
     response_type |-> "error",
     response_time |-> 0,
     escalated     |-> FALSE,
     error         |-> TRUE]

\* a reply that creates the entry when it is gone (setdefault) instead of
\* raising KeyError
Respond_CreatesEntry(memory, id, user_id, intent, escalate, response_text, response_type, elapsed) ==
    [memory |-> SetHistory(memory, user_id,
                    Append(get_conversation_history(memory, user_id),
                           [role |-> "assistant", content |-> response_text, turn |-> id])),
     result |-> [response      |-> response_text,
                 intent        |-> intent,
                 response_type |-> response_type,
                 response_time |-> elapsed,
                 escalated     |-> escalate,
                 error         |-> FALSE]]

\* a reply that is returned as it is when the entry is gone
Respond_WithoutEntry(memory, id, user_id, intent, escalate, response_text, response_type, elapsed) ==
    [memory |-> IF user_id \in DOMAIN memory
                THEN AppendAssistantTurn(memory, user_id,
                        [role |-> "assistant", content |-> response_text, turn |-> id])
                ELSE memory,
     result |-> [response      |-> response_text,
                 intent        |-> intent,
                 response_type |-> response_type,
                 response_time |-> elapsed,
                 escalated     |-> escalate,
                 error         |-> FALSE]]

\* lines 110-134: append the assistant turn and build the result; the
\* subscript raises KeyError when the entry is gone, which the except branch
\* turns into the error result
Respond(memory, id, user_id, intent, escalate, response_text, response_type, elapsed) ==
    IF user_id \in DOMAIN memory
    THEN [memory |-> AppendAssistantTurn(memory, user_id,
                        [role |-> "assistant", content |-> response_text, turn |-> id]),
          result |-> [response      |-> response_text,
                      intent        |-> intent,
                      response_type |-> response_type,
                      response_time |-> elapsed,
                      escalated     |-> escalate,
                      error         |-> FALSE]]
    ELSE [memory |-> memory, result |-> ErrorResult]

\* process_message from its first line to its first suspension: the await of
\* the completion request, or the return when the turn needs none
ProcessStart(memory, id, user_id, message) ==
    LET turn     == [role |-> "user", content |-> UserContent(message), turn |-> id]
        appended == AppendUserTurn(memory, user_id, turn)
        intent   == classify_intent(Text[message])
        escalate == should_escalate(Text[message], appended[user_id], knowledge_base)
        kb_response == _check_knowledge_base(Text[message], intent)
    IN  IF escalate
        THEN [suspended |-> FALSE, intent |-> intent] @@
             Respond(appended, id, user_id, intent, TRUE,
                     _handle_escalation(user_id, intent), "escalation", 0)
        ELSE IF kb_response # None
        THEN [suspended |-> FALSE, intent |-> intent] @@
             Respond(appended, id, user_id, intent, FALSE, kb_response, "ai_response", 0)
        ELSE [suspended |-> TRUE, intent |-> intent,
              memory |-> appended, result |-> NoResult]

\* a resume in which a failure of the completion request reaches the except
\* branch of process_message: no assistant turn, the error result
ProcessResume_FailurePropagates(memory, id, call, outcome) ==
    IF outcome \in Failures
    THEN [memory |-> memory, result |-> ErrorResult]
    ELSE Respond(memory, id, call.user_id, call.intent, FALSE,
                 generate_response(outcome), "ai_response", 1)

\* process_message from the return of the completion request to its own
ProcessResume(memory, id, call, outcome) ==
    Respond(memory, id, call.user_id, call.intent, FALSE,
            generate_response(outcome), "ai_response", 1)

(***************************************************************************)
(* MetricsCollector.record_interaction (app/analytics/metrics.py).         *)
(***************************************************************************)
\* a fresh daily_stats entry; of its counters the model keeps the number of
\* interactions and of escalations
NewDay == [total_interactions |-> 0, escalations |-> 0]

record_interaction(stats, date_key, escalated) ==
    LET daily == IF date_key \in DOMAIN stats THEN stats[date_key] ELSE NewDay
    IN  [d \in DOMAIN stats \cup {date_key} |->
            IF d = date_key
            THEN [total_interactions |-> daily.total_interactions + 1,
                  escalations |-> daily.escalations + (IF escalated THEN 1 ELSE 0)]
            ELSE stats[d]]

\* the recorded sample; call stands for its timestamp
Interaction(id, user_id, result) ==
    [call |-> id, user_id |-> user_id, response_time |-> result.response_time,
     intent |-> result.intent, escalated |-> result.escalated, date |-> Today]

\* chat_with_bot, lines 69-77, once process_message has returned
Record(id, user_id, result) ==
    /\ interactions' = Append(interactions, Interaction(id, user_id, result))
    /\ daily_stats' = record_interaction(daily_stats, Today, result.escalated)

(***************************************************************************)
(* The entry points.                                                       *)
(***************************************************************************)
\* completion is how the turn's completion request ended ("not_called" when
\* the turn made none, "pending" while it is awaited)
Call(entry, user_id, message, pc, intent, completion, result) ==
    [entry |-> entry, user_id |-> user_id, message |-> message, pc |-> pc,
     intent |-> intent, completion |-> completion, result |-> result]

\* POST /chat (app/api/routes.py): process_message up to its suspension or
\* its return, and the metrics of a turn that returned
ChatWithBot(user_id, message) ==
    /\ Len(calls) < MaxCalls
    /\ LET id  == Len(calls) + 1
           out == ProcessStart(conversation_memory["routes"], id, user_id, message)
       IN  /\ conversation_memory' =
                 [conversation_memory EXCEPT !["routes"] = out.memory]
           /\ IF out.suspended
              THEN /\ calls' = Append(calls, Call("http", user_id, message,
                                  "completion", out.intent, "pending", NoResult))
                   /\ UNCHANGED <<interactions, daily_stats>>
              ELSE /\ calls' = Append(calls, Call("http", user_id, message,
                                  "returned", out.intent, "not_called", out.result))
                   /\ Record(id, user_id, out.result)
    /\ UNCHANGED function_vars

\* the completion request of an HTTP turn ends: the rest of process_message
\* and of chat_with_bot
ChatWithBotResume(id, outcome) ==
    /\ id \in 1..Len(calls)
    /\ calls[id].entry = "http"
    /\ calls[id].pc = "completion"
    /\ LET out == ProcessResume(conversation_memory["routes"], id, calls[id], outcome)
       IN  /\ conversation_memory' =
                 [conversation_memory EXCEPT !["routes"] = out.memory]
           /\ calls' = [calls EXCEPT ![id].pc = "returned",
                                     ![id].completion = outcome,
                                     ![id].result = out.result]
           /\ Record(id, calls[id].user_id, out.result)
    /\ UNCHANGED function_vars

\* a "chat" message on the WebSocket (app/api/websocket.py, handle_message):
\* a blank message returns at once; otherwise process_message up to its
\* suspension or its return
HandleMessage(user_id, message) ==
    /\ Len(calls) < MaxCalls
    /\ IF IsBlank(Text[message])
       THEN /\ calls' = Append(calls, Call("ws", user_id, message,
                                  "skipped", "", "not_called", NoResult))
            /\ UNCHANGED conversation_memory
       ELSE LET id  == Len(calls) + 1
                out == ProcessStart(conversation_memory["manager"], id, user_id, message)
            IN  /\ conversation_memory' =
                      [conversation_memory EXCEPT !["manager"] = out.memory]
                /\ calls' = Append(calls,
                      IF out.suspended
                      THEN Call("ws", user_id, message, "completion", out.intent,
                                "pending", NoResult)
                      ELSE Call("ws", user_id, message, "returned", out.intent,
                                "not_called", out.result))
    /\ UNCHANGED <<interactions, daily_stats>>
    /\ UNCHANGED function_vars

\* the completion request of a WebSocket turn ends
HandleMessageResume(id, outcome) ==
    /\ id \in 1..Len(calls)
    /\ calls[id].entry = "ws"
    /\ calls[id].pc = "completion"
    /\ LET out == ProcessResume(conversation_memory["manager"], id, calls[id], outcome)
       IN  /\ conversation_memory' =
                 [conversation_memory EXCEPT !["manager"] = out.memory]
           /\ calls' = [calls EXCEPT ![id].pc = "returned",
                                     ![id].completion = outcome,
                                     ![id].result = out.result]
    /\ UNCHANGED <<interactions, daily_stats>>
    /\ UNCHANGED function_vars

\* clear_conversation_history: DELETE /conversations/{user_id} and the admin
\* reset on routes.chatbot, a "clear_history" message on manager.chatbot
ClearConversationHistory(chatbot, user_id) ==
    /\ user_id \in DOMAIN conversation_memory[chatbot]
    /\ conversation_memory' =
          [conversation_memory EXCEPT ![chatbot] = DeleteEntry(@, user_id)]
    /\ UNCHANGED <<calls, interactions, daily_stats>>
    /\ UNCHANGED function_vars

(***************************************************************************)
(* The pipeline.                                                           *)
(***************************************************************************)
EmptyMemory == [u \in {} |-> <<>>]

\* no turn was processed
PipelineIdle ==
    /\ conversation_memory = [c \in Chatbots |-> EmptyMemory]
    /\ calls = <<>>
    /\ interactions = <<>>
    /\ daily_stats = [d \in {} |-> NewDay]

\* no should_escalate evaluation is under way
EscalationIdle ==
    /\ esc_message = <<>>
    /\ esc_history = <<>>
    /\ esc_result = "unset"

\* no generate_response call is under way
BudgetIdle ==
    /\ bud_request = Unset
    /\ bud_messages = Unset
    /\ bud_payload = Unset

\* no message is being analysed
TextIdle ==
    /\ txt_pc = "idle"
    /\ txt_message = <<>>
    /\ txt_intent = "unset"
    /\ txt_entities = <<>>

\* one _percentile call: how far it got, its arguments and its result: none under way
PercentileIdle ==
    /\ pct_pc = "idle"
    /\ pct_data = <<>>
    /\ pct_percentile = 0
    /\ pct_value = 0

\* a metrics collector that has recorded nothing
MetricsIdle ==
    /\ met_today = 0
    /\ met_interactions = <<>>
    /\ met_feedback = <<>>
    /\ met_report = NoMetrics

\* no call of the conversation memory interface is returning
MemoryApiIdle ==
    /\ api_call = NoApiCall

\* a metrics collector at the start of day 0 that has recorded nothing
RetentionIdle ==
    /\ ret_now = 0
    /\ ret_interactions = <<>>
    /\ ret_feedback = <<>>
    /\ ret_daily_stats = [d \in {} |-> NewDay]

Init ==
    /\ conversation_memory = [c \in Chatbots |-> EmptyMemory]
    /\ calls = <<>>
    /\ interactions = <<>>
    /\ daily_stats = [d \in {} |-> NewDay]
    /\ esc_message = <<>>
    /\ esc_history = <<>>
    /\ esc_result = "unset"
    /\ BudgetIdle
    /\ TextIdle
    /\ PercentileIdle
    /\ MetricsIdle
    /\ MemoryApiIdle
    /\ RetentionIdle

Next ==
    \/ \E u \in Users, m \in HttpMessages : ChatWithBot(u, m)
    \/ \E i \in 1..MaxCalls, o \in Outcomes : ChatWithBotResume(i, o)
    \/ \E u \in Users, m \in Messages : HandleMessage(u, m)
    \/ \E i \in 1..MaxCalls, o \in Outcomes : HandleMessageResume(i, o)
    \/ \E c \in Chatbots, u \in Users : ClearConversationHistory(c, u)

Spec == Init /\ [][Next]_vars

(***************************************************************************)
(* The conversation memory interface of routes.chatbot next to the turns   *)
(* of POST /chat: clear_conversation_history, get_conversation_history and *)
(* get_conversation_summary with what they return.  The three are plain    *)
(* functions: nothing else runs between their call and their return, so    *)
(* api_call holds the returned value until the caller has it.              *)
(***************************************************************************)
\* a clear that reports success whether or not an entry existed
clear_conversation_history_AlwaysTrue(memory, user_id) ==
    [memory |-> DeleteEntry(memory, user_id), result |-> TRUE]

clear_conversation_history(memory, user_id) ==
    IF user_id \in DOMAIN memory
    THEN [memory |-> DeleteEntry(memory, user_id), result |-> TRUE]
    ELSE [memory |-> memory, result |-> FALSE]

\* turn stands for the timestamp; the duration is left out
get_conversation_summary(memory, user_id) ==
    LET history == get_conversation_history(memory, user_id)
    IN  IF history = <<>>
        THEN [message_count |-> 0, duration |-> 0]
        ELSE [message_count |-> Len(history),
              start_time |-> history[1].turn,
              last_message_time |-> history[Len(history)].turn]

ClearAndReturn(user_id) ==
    /\ MemoryApiIdle
    /\ LET out == clear_conversation_history(conversation_memory["routes"], user_id)
       IN  /\ conversation_memory' =
                 [conversation_memory EXCEPT !["routes"] = out.memory]
           /\ api_call' = [op |-> "clear", user_id |-> user_id, result |-> out.result]
    /\ UNCHANGED <<calls, interactions, daily_stats>>
    /\ UNCHANGED <<escalation_vars, budget_vars, text_vars, percentile_vars, metrics_vars,
                   retention_vars>>

GetConversationHistory(user_id) ==
    /\ MemoryApiIdle
    /\ api_call' = [op |-> "history", user_id |-> user_id,
                    result |-> get_conversation_history(conversation_memory["routes"],
                                                        user_id)]
    /\ UNCHANGED pipeline_vars
    /\ UNCHANGED <<escalation_vars, budget_vars, text_vars, percentile_vars, metrics_vars,
                   retention_vars>>

GetConversationSummary(user_id) ==
    /\ MemoryApiIdle
    /\ api_call' = [op |-> "summary", user_id |-> user_id,
                    result |-> get_conversation_summary(conversation_memory["routes"],
                                                        user_id)]
    /\ UNCHANGED pipeline_vars
    /\ UNCHANGED <<escalation_vars, budget_vars, text_vars, percentile_vars, metrics_vars,
                   retention_vars>>

\* the caller has the returned value
ApiReturn ==
    /\ ~MemoryApiIdle
    /\ api_call' = NoApiCall
    /\ UNCHANGED pipeline_vars
    /\ UNCHANGED <<escalation_vars, budget_vars, text_vars, percentile_vars, metrics_vars,
                   retention_vars>>

NextMemory ==
    \/ MemoryApiIdle /\ \E u \in Users, m \in HttpMessages : ChatWithBot(u, m)
    \/ MemoryApiIdle /\ \E i \in 1..MaxCalls, o \in Outcomes : ChatWithBotResume(i, o)
    \/ \E u \in Users : ClearAndReturn(u)
    \/ \E u \in Users : GetConversationHistory(u)
    \/ \E u \in Users : GetConversationSummary(u)
    \/ ApiReturn

SpecMemory == Init /\ [][NextMemory]_vars

(***************************************************************************)
(* One evaluation of should_escalate on an enumerated message.             *)
(***************************************************************************)
\* the paddings put before and after a word: up to MaxPad characters
PadChars == {"x", " "}

Pads == UNION {[1..n -> PadChars] : n \in 0..MaxPad}

\* str.capitalize()
Capitalize(text) ==
    [i \in 1..Len(text) |-> IF i = 1 THEN UpperChar(text[i]) ELSE LowerChar(text[i])]

\* every configured keyword as written, in capitals and capitalized, and two
\* words that hold no keyword
EscWords ==
    UNION {{knowledge_base.escalation_keywords[k],
            Upper(knowledge_base.escalation_keywords[k]),
            Capitalize(knowledge_base.escalation_keywords[k])} :
           k \in 1..Len(knowledge_base.escalation_keywords)}
    \cup {<<"m","a","n","a","g","e">>, <<"h","e","l","l","o">>}

EscMessages == {pre \o w \o post : pre \in Pads, w \in EscWords, post \in Pads}

\* a history of n turns: "hi" and its generated reply, again and again
Exchange(n) ==
    [i \in 1..n |->
        IF i % 2 = 1
        THEN [role |-> "user", content |-> UserContent("hi"), turn |-> (i + 1) \div 2]
        ELSE [role |-> "assistant", content |-> generate_response("ok"),
              turn |-> i \div 2]]

\* a history given turn by turn: the name of the user's message, or "reply"
\* for a generated reply
Conversation(items) ==
    [i \in 1..Len(items) |->
        IF items[i] = "reply"
        THEN [role |-> "assistant", content |-> generate_response("ok"), turn |-> i]
        ELSE [role |-> "user", content |-> UserContent(items[i]), turn |-> i]]

\* histories around rule 4: three messages about a return in 3, 5, 6 and 7
\* turns, and histories of 6 and 9 turns whose last 6 turns lack the third
\* user turn, the common intent or an intent that escalates
RepeatedIssueHistories == {
    Conversation(<<"cancel my return", "cancel my return", "cancel my return">>),
    Conversation(<<"cancel my return", "reply", "cancel my return", "reply",
                   "cancel my return">>),
    Conversation(<<"cancel my return", "reply", "cancel my return", "reply",
                   "cancel my return", "reply">>),
    Conversation(<<"cancel my return", "reply", "cancel my return", "reply",
                   "cancel my return", "reply", "cancel my return">>),
    Conversation(<<"cancel my return", "reply", "hi", "reply",
                   "cancel my return", "reply">>),
    Conversation(<<"hi", "reply", "hi", "reply", "hi", "reply">>),
    Conversation(<<"reply", "reply", "cancel my return", "reply",
                   "cancel my return", "reply">>),
    Conversation(<<"cancel my return", "cancel my return", "cancel my return",
                   "reply", "reply", "reply", "reply", "reply", "reply">>)
  }

\* short histories, the histories at and just above the length of rule 3,
\* and those around rule 4
EscHistories == RepeatedIssueHistories \cup {
    <<>>,
    <<[role |-> "user", content |-> UserContent("hi"), turn |-> 1]>>,
    <<[role |-> "user", content |-> UserContent("hi"), turn |-> 1],
      [role |-> "assistant", content |-> generate_response("ok"), turn |-> 1]>>,
    Exchange(EscalateAfterLength),
    Exchange(EscalateAfterLength + 1)
  }

InitEscalate ==
    /\ conversation_memory = [c \in Chatbots |-> EmptyMemory]
    /\ calls = <<>>
    /\ interactions = <<>>
    /\ daily_stats = [d \in {} |-> NewDay]
    /\ esc_message \in EscMessages
    /\ esc_history \in EscHistories
    /\ esc_result = "unset"
    /\ BudgetIdle
    /\ TextIdle
    /\ PercentileIdle
    /\ MetricsIdle
    /\ MemoryApiIdle
    /\ RetentionIdle

ShouldEscalate ==
    /\ esc_result = "unset"
    /\ esc_result' =
          IF should_escalate(esc_message, esc_history, knowledge_base)
          THEN "true" ELSE "false"
    /\ UNCHANGED <<esc_message, esc_history>>
    /\ UNCHANGED <<pipeline_vars, budget_vars, text_vars, percentile_vars, metrics_vars, memory_api_vars, retention_vars>>

NextEscalate == ShouldEscalate

SpecEscalate == InitEscalate /\ [][NextEscalate]_vars

(***************************************************************************)
(* The context budgeter: OpenAIClient.generate_response up to its          *)
(* completion request (app/chatbot/openai_client.py).                      *)
(*                                                                         *)
(* A content is [id, words]: which text it is and how many words           *)
(* content.split() finds in it.  The estimate of the code is the float     *)
(* len(content.split()) * 1.3, summed and subtracted in binary64; the      *)
(* model computes these operations bit for bit (see Binary64 below).       *)
(***************************************************************************)
\* Binary64 values of magnitude below 2^13 whose unit in the last place is
\* at least 2^-52: every estimate, and every sum and difference of
\* estimates, is such a value.  A value is [neg, mag], mag being the
\* magnitude in units of 2^-52 written in five digits of base 2^16, least
\* significant first.
LimbBase == 65536

\* propagates carries and borrows through the digits
Norm(r) ==
    LET a1 == r[1]
        a2 == r[2] + (a1 \div LimbBase)
        a3 == r[3] + (a2 \div LimbBase)
        a4 == r[4] + (a3 \div LimbBase)
        a5 == r[5] + (a4 \div LimbBase)
    IN  <<a1 % LimbBase, a2 % LimbBase, a3 % LimbBase, a4 % LimbBase, a5>>

AddMag(a, b) == Norm([i \in 1..5 |-> a[i] + b[i]])

\* a - b for a >= b
SubMag(a, b) == Norm([i \in 1..5 |-> a[i] - b[i]])

MulSmall(a, n) == Norm([i \in 1..5 |-> a[i] * n])

LessMag(a, b) ==
    \E i \in 1..5 : a[i] < b[i] /\ \A j \in (i + 1)..5 : a[j] = b[j]

\* the number of binary digits of n
RECURSIVE BitLength(_)
BitLength(n) == IF n = 0 THEN 0 ELSE 1 + BitLength(n \div 2)

\* how many low bits do not fit the 53-bit significand
ExcessBits(m) ==
    LET length == IF m[5] > 0 THEN 64 + BitLength(m[5])
                  ELSE IF m[4] > 0 THEN 48 + BitLength(m[4])
                  ELSE 0
    IN  IF length > 53 THEN length - 53 ELSE 0

\* round to nearest, ties to even
RoundMag(m) ==
    LET s == ExcessBits(m)
    IN  IF s = 0 THEN m
        ELSE LET q    == 2 ^ s
                 r    == m[1] % q
                 down == [m EXCEPT ![1] = m[1] - r]
                 odd  == (m[1] \div q) % 2 = 1
             IN  IF r > q \div 2 \/ (r = q \div 2 /\ odd)
                 THEN AddMag(down, <<q, 0, 0, 0, 0>>)
                 ELSE down

\* float(n) of an integer 0 <= n < 4096
FloatOfInt(n) == [neg |-> FALSE, mag |-> Norm(<<0, 0, 0, n * 16, 0>>)]

\* the binary64 nearest to 1.3: 0x3FF4CCCCCCCCCCCD
TokensPerWord == [neg |-> FALSE, mag |-> <<52429, 52428, 52428, 20, 0>>]

\* n * x for an integer n >= 0
FloatTimesInt(x, n) == [neg |-> x.neg, mag |-> RoundMag(MulSmall(x.mag, n))]

FloatAdd(x, y) ==
    IF x.neg = y.neg
    THEN [neg |-> x.neg, mag |-> RoundMag(AddMag(x.mag, y.mag))]
    ELSE IF LessMag(x.mag, y.mag)
         THEN [neg |-> y.neg, mag |-> RoundMag(SubMag(y.mag, x.mag))]
         ELSE [neg |-> x.neg, mag |-> RoundMag(SubMag(x.mag, y.mag))]

FloatSub(x, y) == FloatAdd(x, [neg |-> ~y.neg, mag |-> y.mag])

\* x > y
FloatGreater(x, y) ==
    IF x.neg = y.neg
    THEN IF x.neg THEN LessMag(x.mag, y.mag) ELSE LessMag(y.mag, x.mag)
    ELSE y.neg /\ (LessMag(<<0, 0, 0, 0, 0>>, x.mag) \/ LessMag(<<0, 0, 0, 0, 0>>, y.mag))

\* settings.max_tokens as shipped: the tokens reserved for the response
DefaultMaxTokens == 500

\* the MAX_TOKENS settings the model runs with: the default, and one whose
\* budget is a multiple of 1.3
MaxTokensSettings == {DefaultMaxTokens, 100}

\* the window the budget is taken from
ModelWindow == 4000

\* len(msg["content"].split())
WordCount(content) == content.words

\* len(msg["content"].split()) * 1.3
EstimatedCost(msg) == FloatTimesInt(TokensPerWord, WordCount(msg.content))

\* sum(...): the estimates added one by one, starting from 0
RECURSIVE SumCost(_, _, _)
SumCost(messages, i, acc) ==
    IF i > Len(messages) THEN acc
    ELSE SumCost(messages, i + 1, FloatAdd(acc, EstimatedCost(messages[i])))

\* total_tokens as first computed
total_tokens(messages) == SumCost(messages, 1, FloatOfInt(0))

max_input_tokens(max_tokens) == ModelWindow - max_tokens

\* _prepare_conversation_history: role and content of the user and assistant
\* turns
IsChatRole(msg) == msg.role \in {"user", "assistant"}

_prepare_conversation_history(history) ==
    LET kept == SelectSeq(history, IsChatRole)
    IN  [i \in 1..Len(kept) |-> [role |-> kept[i].role, content |-> kept[i].content]]

\* a messages list that relies on the history for the current message
PrepareMessages_HistoryOnly(message, conversation_history, system_prompt) ==
    <<[role |-> "system", content |-> system_prompt]>>
    \o _prepare_conversation_history(conversation_history)

\* a messages list that starts with the system prompt twice
PrepareMessages_PromptTwice(message, conversation_history, system_prompt) ==
    <<[role |-> "system", content |-> system_prompt],
      [role |-> "system", content |-> system_prompt]>>
    \o _prepare_conversation_history(conversation_history)
    \o <<[role |-> "user", content |-> message]>>

\* the messages list before the token check
PrepareMessages(message, conversation_history, system_prompt) ==
    <<[role |-> "system", content |-> system_prompt]>>
    \o _prepare_conversation_history(conversation_history)
    \o <<[role |-> "user", content |-> message]>>

\* the loop condition of _manage_token_count
NeedsTrim(messages, total, max_tokens) ==
    /\ FloatGreater(total, FloatOfInt(max_input_tokens(max_tokens)))
    /\ Len(messages) > 2

\* messages.pop(1)
PopOldest_PopsNewest(messages) ==
    SubSeq(messages, 1, Len(messages) - 2) \o <<messages[Len(messages)]>>

PopOldest(messages) ==
    <<messages[1]>> \o SubSeq(messages, 3, Len(messages))

\* the loop spins for ever when the second message is not a chat message
Hangs == <<"hangs">>

RECURSIVE TrimLoop(_, _, _)
TrimLoop(messages, total, max_tokens) ==
    IF NeedsTrim(messages, total, max_tokens)
    THEN IF IsChatRole(messages[2])
         THEN TrimLoop(PopOldest(messages),
                       FloatSub(total, EstimatedCost(messages[2])), max_tokens)
         ELSE Hangs
    ELSE messages

_manage_token_count(messages, max_tokens) ==
    TrimLoop(messages, total_tokens(messages), max_tokens)

\* the sizes, in words, of the enumerated contents
WordCounts == {10, 99, 1398, 3000}

\* the sizes of the system prompt: the template of _create_system_prompt
\* filled from the default knowledge base holds 104 words with no entities
\* and at least 105 with some
PromptWordCounts == {104, 105}

\* the turns before the current one: any roles, any sizes
EarlierTurns ==
    UNION {[1..n -> [role : {"user", "assistant"}, words : WordCounts]] :
           n \in 0..(MaxHistory - 1)}

\* conversation_memory.get(user_id) as _generate_response reads it: the
\* stored turns, the last of which is the user turn of the current message
HistoryOf(earlier, words) ==
    [i \in 1..(Len(earlier) + 1) |->
        IF i <= Len(earlier)
        THEN [role |-> earlier[i].role,
              content |-> [id |-> i, words |-> earlier[i].words],
              turn |-> i]
        ELSE [role |-> "user",
              content |-> [id |-> i, words |-> words],
              turn |-> i]]

GenerateRequests ==
    {[message |-> [id |-> Len(e) + 1, words |-> w],
      conversation_history |-> HistoryOf(e, w),
      system_prompt |-> [id |-> 0, words |-> s],
      max_tokens |-> t] :
     e \in EarlierTurns, w \in WordCounts, s \in PromptWordCounts,
     t \in MaxTokensSettings}

InitBudget ==
    /\ PipelineIdle
    /\ EscalationIdle
    /\ bud_request \in GenerateRequests
    /\ bud_messages = Unset
    /\ bud_payload = Unset
    /\ TextIdle
    /\ PercentileIdle
    /\ MetricsIdle
    /\ MemoryApiIdle
    /\ RetentionIdle

\* openai_client.py lines 48-55
AssembleMessages ==
    /\ bud_messages = Unset
    /\ bud_messages' = PrepareMessages(bud_request.message,
                                       bud_request.conversation_history,
                                       bud_request.system_prompt)
    /\ UNCHANGED <<bud_request, bud_payload>>
    /\ UNCHANGED <<pipeline_vars, escalation_vars, text_vars, percentile_vars, metrics_vars, memory_api_vars, retention_vars>>

\* openai_client.py line 58
ManageTokenCount ==
    /\ bud_messages # Unset
    /\ bud_payload = Unset
    /\ bud_payload' = _manage_token_count(bud_messages, bud_request.max_tokens)
    /\ UNCHANGED <<bud_request, bud_messages>>
    /\ UNCHANGED <<pipeline_vars, escalation_vars, text_vars, percentile_vars, metrics_vars, memory_api_vars, retention_vars>>

NextBudget == AssembleMessages \/ ManageTokenCount

SpecBudget == InitBudget /\ [][NextBudget]_vars

(***************************************************************************)
(* The analysis of one message: classify_intent, then extract_entities     *)
(* (app/chatbot/core.py lines 96-97).                                      *)
(***************************************************************************)
\* the words the enumerated messages are made of
Vocabulary == {
    <<"H","i">>,
    <<"b","r","o","k","e","n">>,
    <<"c","a","n","c","e","l">>,
    <<"A","B","C","1","2","3","4","5">>,
    <<"a","@","b",".","c","o">>,
    <<"5","5","5","-","1","2","3","-","4","5","6","7">>,
    <<"$","5">>,
    <<"1","/","2","/","2","0","2","4">>,
    <<"2","0","2","4","-","0","1","-","0","2">>,
    <<"p","h","o","n","e">>,
    <<"l","a","p","t","o","p">>
  }

\* " ".join(words)
RECURSIVE Join(_)
Join(words) ==
    IF Len(words) = 0 THEN <<>>
    ELSE IF Len(words) = 1 THEN words[1]
    ELSE words[1] \o <<" ">> \o Join(Tail(words))

\* the messages of one to MaxWords words
AnalysedMessages ==
    {Join(ws) : ws \in UNION {[1..n -> Vocabulary] : n \in 1..MaxWords}}

InitText ==
    /\ PipelineIdle
    /\ EscalationIdle
    /\ BudgetIdle
    /\ txt_pc = "received"
    /\ txt_message \in AnalysedMessages
    /\ txt_intent = "unset"
    /\ txt_entities = <<>>
    /\ PercentileIdle
    /\ MetricsIdle
    /\ MemoryApiIdle
    /\ RetentionIdle

\* core.py line 96
ClassifyIntent ==
    /\ txt_pc = "received"
    /\ txt_intent' = ClassifyText(txt_message)
    /\ txt_pc' = "classified"
    /\ UNCHANGED <<txt_message, txt_entities>>
    /\ UNCHANGED <<pipeline_vars, escalation_vars, budget_vars, percentile_vars, metrics_vars, memory_api_vars, retention_vars>>

\* core.py line 97
ExtractEntities ==
    /\ txt_pc = "classified"
    /\ txt_entities' = extract_entities(txt_message)
    /\ txt_pc' = "extracted"
    /\ UNCHANGED <<txt_message, txt_intent>>
    /\ UNCHANGED <<pipeline_vars, escalation_vars, budget_vars, percentile_vars, metrics_vars, memory_api_vars, retention_vars>>

NextText == ClassifyIntent \/ ExtractEntities

SpecText == InitText /\ [][NextText]_vars

(***************************************************************************)
(* MetricsCollector._percentile (app/analytics/metrics.py).                *)
(*                                                                         *)
(* Response times are counted in thousandths of a second, results in       *)
(* hundredths.  The code computes in binary64 and rounds the result to two *)
(* decimals; the float error is far smaller than a thousandth, so the      *)
(* rounded result is that of the exact value unless the exact value lies   *)
(* half-way between two hundredths, where the binary value decides: tie    *)
(* says which way.                                                         *)
(***************************************************************************)
Ties == {"down", "up"}

\* index = (percentile / 100) * (len(data) - 1), in hundredths
PercentileIndex(data, percentile) == percentile * (Len(data) - 1)

\* lower_index = int(index)
lower_index(index) == index \div 100

\* upper_index = min(lower_index + 1, len(data) - 1)
upper_index_SameAsLower(lower, data) ==
    lower

upper_index(lower, data) ==
    IF lower + 1 <= Len(data) - 1 THEN lower + 1 ELSE Len(data) - 1

\* round(value, 2) of a value given in 1/100000: the result in hundredths
Round2(value, tie) ==
    LET q == value \div 1000
        r == value % 1000
    IN  IF r > 500 \/ (r = 500 /\ tie = "up") THEN q + 1 ELSE q

\* the list is indexed from 0 in the code
_percentile(data, percentile, tie) ==
    IF data = <<>> THEN 0
    ELSE LET index  == PercentileIndex(data, percentile)
             lower  == lower_index(index)
             upper  == upper_index(lower, data)
             weight == index - lower * 100
         IN  IF lower = upper
             THEN Round2(data[lower + 1] * 100, tie)
             ELSE Round2(data[lower + 1] * (100 - weight) + data[upper + 1] * weight,
                         tie)

\* the response times of the enumerated samples, in thousandths of a second
ResponseTimes == {4, 1000, 2000, 3000, 4000, 5000}

\* response_times after response_times.sort()
SortedData ==
    UNION {{d \in [1..n -> ResponseTimes] : \A i \in 1..(n - 1) : d[i] <= d[i + 1]} :
           n \in 0..MaxData}

\* the percentiles get_metrics asks for, and the two ends
Percentiles == {0, 50, 90, 95, 99, 100}

InitPercentile ==
    /\ PipelineIdle
    /\ EscalationIdle
    /\ BudgetIdle
    /\ TextIdle
    /\ pct_pc = "called"
    /\ pct_data \in SortedData
    /\ pct_percentile \in Percentiles
    /\ pct_value = 0
    /\ MetricsIdle
    /\ MemoryApiIdle
    /\ RetentionIdle

Percentile ==
    /\ pct_pc = "called"
    /\ \E tie \in Ties : pct_value' = _percentile(pct_data, pct_percentile, tie)
    /\ pct_pc' = "returned"
    /\ UNCHANGED <<pct_data, pct_percentile>>
    /\ UNCHANGED <<pipeline_vars, escalation_vars, budget_vars, text_vars, metrics_vars, memory_api_vars, retention_vars>>

NextPercentile == Percentile

SpecPercentile == InitPercentile /\ [][NextPercentile]_vars

(***************************************************************************)
(* MetricsCollector.get_metrics (app/analytics/metrics.py).                *)
(*                                                                         *)
(* Dates are counted in days from the collector's start.  Response times   *)
(* are whole seconds here; rates and averages are kept in hundredths, as   *)
(* round(x, 2) leaves them, the consistency score in tenths.  Of a sample  *)
(* the model keeps user_id, response_time, intent, escalated and date; of  *)
(* the report it keeps the fields computed from these (the hourly          *)
(* distribution and the message lengths are left out).                     *)
(***************************************************************************)
RECURSIVE SeqSum(_)
SeqSum(numbers) ==
    IF numbers = <<>> THEN 0 ELSE Head(numbers) + SeqSum(Tail(numbers))

\* round(a / b, 0) for a >= 0 and b > 0; a tie needs b to be a multiple of
\* 8, which no list of the model reaches
RoundDiv(a, b) == (2 * a + b) \div (2 * b)

ResponseTimesOf(samples) ==
    [i \in 1..Len(samples) |-> samples[i].response_time]

EscalationsOf(samples) ==
    Cardinality({i \in 1..Len(samples) : samples[i].escalated})

UsersOf(samples) ==
    {samples[i].user_id : i \in 1..Len(samples)}

\* dict(Counter(...)) of one field
CounterOf(values) ==
    [v \in Range(values) |-> Cardinality({i \in 1..Len(values) : values[i] = v})]

\* start_date <= date <= end_date
InPeriod_AnyDate(entry, start_date, end_date) ==
    TRUE

InPeriod(entry, start_date, end_date) ==
    start_date <= entry.date /\ entry.date <= end_date

RECURSIVE Insert(_, _)
Insert(x, sorted) ==
    IF sorted = <<>> \/ x <= Head(sorted) THEN <<x>> \o sorted
    ELSE <<Head(sorted)>> \o Insert(x, Tail(sorted))

\* response_times.sort()
RECURSIVE Sorted(_)
Sorted(numbers) ==
    IF numbers = <<>> THEN <<>> ELSE Insert(Head(numbers), Sorted(Tail(numbers)))

_empty_metrics(end_date, days) ==
    [period |-> [start_date |-> end_date - (days - 1), end_date |-> end_date,
                 days |-> days],
     overview |-> [total_interactions |-> 0, unique_users |-> 0,
                   average_response_time |-> 0, escalation_rate |-> 0,
                   avg_interactions_per_user |-> 0],
     performance |-> [response_time_percentiles |-> <<>>,
                      total_escalations |-> 0, success_rate |-> 0],
     intent_analysis |-> [top_intents |-> <<>>, intent_distribution |-> <<>>],
     temporal_analysis |-> [daily_breakdown |-> <<>>],
     feedback |-> [average_rating |-> 0, total_feedback |-> 0,
                   rating_distribution |-> <<>>],
     quality_indicators |-> [response_consistency |-> 0]]

\* recent_feedback is left out
_analyze_feedback(feedback_data) ==
    IF feedback_data = <<>>
    THEN [average_rating |-> 0, total_feedback |-> 0,
          rating_distribution |-> <<>>, satisfaction_rate |-> 0]
    ELSE LET ratings == [i \in 1..Len(feedback_data) |-> feedback_data[i].rating]
             n       == Len(ratings)
         IN  [average_rating |-> RoundDiv(SeqSum(ratings) * 100, n),
              total_feedback |-> n,
              rating_distribution |-> CounterOf(ratings),
              satisfaction_rate |->
                  RoundDiv(Cardinality({i \in 1..n : ratings[i] >= 4}) * 10000, n)]

_get_daily_breakdown(samples, start_date, end_date) ==
    [k \in 1..(end_date - start_date + 1) |->
        LET date == start_date + k - 1
            data == SelectSeq(samples, LAMBDA i : i.date = date)
            n    == Len(data)
        IN  [date |-> date,
             interactions |-> n,
             unique_users |-> Cardinality(UsersOf(data)),
             escalations |-> EscalationsOf(data),
             avg_response_time |->
                 IF n > 0 THEN RoundDiv(SeqSum(ResponseTimesOf(data)) * 100, n) ELSE 0,
             escalation_rate |->
                 IF n > 0 THEN RoundDiv(EscalationsOf(data) * 10000, n) ELSE 0]]

\* the greatest k of low..high with (2k - 1) * total <= 2000 * sqrt(spread),
\* which is round(1000 * sqrt(spread) / total)
RECURSIVE RoundedCv(_, _, _, _)
RoundedCv(spread, total, low, high) ==
    IF low = high THEN low
    ELSE LET k == (low + high + 1) \div 2
         IN  IF (2 * k - 1) * (2 * k - 1) * total * total <= 4000000 * spread
             THEN RoundedCv(spread, total, k, high)
             ELSE RoundedCv(spread, total, low, k - 1)

\* with n samples of sum S and sum of squares Q, std_dev / mean_time is
\* sqrt(n * Q - S * S) / S
_calculate_consistency(samples) ==
    IF Len(samples) < 2 THEN 1000
    ELSE LET response_times == ResponseTimesOf(samples)
             n      == Len(response_times)
             total  == SeqSum(response_times)
             spread == n * SeqSum([i \in 1..n |-> response_times[i] * response_times[i]])
                       - total * total
         IN  IF total = 0 THEN 1000
             ELSE IF spread >= total * total THEN 0
             ELSE 1000 - RoundedCv(spread, total, 0, 1000)

get_metrics(samples, feedback_data, today, days, tie) ==
    LET end_date   == today
        start_date == end_date - (days - 1)
        period_interactions ==
            SelectSeq(samples, LAMBDA i : InPeriod(i, start_date, end_date))
        period_feedback ==
            SelectSeq(feedback_data, LAMBDA f : InPeriod(f, start_date, end_date))
    IN  IF period_interactions = <<>> THEN _empty_metrics(today, days)
        ELSE LET total_interactions  == Len(period_interactions)
                 total_response_time == SeqSum(ResponseTimesOf(period_interactions))
                 escalations  == EscalationsOf(period_interactions)
                 unique_users == Cardinality(UsersOf(period_interactions))
                 intent_counts ==
                     CounterOf([i \in 1..total_interactions |->
                                   period_interactions[i].intent])
                 response_times ==
                     Sorted([i \in 1..total_interactions |->
                                1000 * period_interactions[i].response_time])
             IN  [period |-> [start_date |-> start_date, end_date |-> end_date,
                              days |-> days],
                  overview |->
                      [total_interactions |-> total_interactions,
                       unique_users |-> unique_users,
                       average_response_time |->
                           RoundDiv(total_response_time * 100, total_interactions),
                       escalation_rate |->
                           RoundDiv(escalations * 10000, total_interactions),
                       avg_interactions_per_user |->
                           RoundDiv(total_interactions * 10, unique_users)],
                  performance |->
                      [response_time_percentiles |->
                           [p50 |-> _percentile(response_times, 50, tie),
                            p90 |-> _percentile(response_times, 90, tie),
                            p95 |-> _percentile(response_times, 95, tie),
                            p99 |-> _percentile(response_times, 99, tie)],
                       total_escalations |-> escalations,
                       success_rate |->
                           RoundDiv((total_interactions - escalations) * 10000,
                                    total_interactions)],
                  intent_analysis |-> [top_intents |-> intent_counts,
                                       intent_distribution |-> intent_counts],
                  temporal_analysis |->
                      [daily_breakdown |->
                           _get_daily_breakdown(period_interactions, start_date,
                                                end_date)],
                  feedback |-> _analyze_feedback(period_feedback),
                  quality_indicators |->
                      [response_consistency |->
                           _calculate_consistency(period_interactions)]]

\* the samples recorded: who, how many seconds, which intent, escalated or not
Samples ==
    {[user_id |-> "alice", response_time |-> 0, intent |-> "general", escalated |-> FALSE],
     [user_id |-> "alice", response_time |-> 1, intent |-> "general", escalated |-> FALSE],
     [user_id |-> "alice", response_time |-> 3, intent |-> "billing", escalated |-> FALSE],
     [user_id |-> "bob", response_time |-> 1, intent |-> "complaint", escalated |-> TRUE],
     [user_id |-> "bob", response_time |-> 3, intent |-> "general", escalated |-> FALSE]}

\* ratings of the feedback route (1 to 5)
Ratings == {2, 5}

\* the days a caller asks for: GET /metrics takes any integer, 7 by default
RequestedDays == {0, 1, 2, 7}

InitMetrics ==
    /\ PipelineIdle
    /\ EscalationIdle
    /\ BudgetIdle
    /\ TextIdle
    /\ PercentileIdle
    /\ MetricsIdle
    /\ MemoryApiIdle
    /\ RetentionIdle

\* get_metrics has no await: nothing else runs from its start to its return,
\* and met_report holds the report until the caller has it
NoReportPending == met_report = NoMetrics

RecordInteraction(sample) ==
    /\ NoReportPending
    /\ Len(met_interactions) + Len(met_feedback) < MaxRecorded
    /\ met_interactions' =
           Append(met_interactions,
                  [user_id |-> sample.user_id, response_time |-> sample.response_time,
                   intent |-> sample.intent, escalated |-> sample.escalated,
                   date |-> met_today])
    /\ UNCHANGED <<met_today, met_feedback, met_report>>
    /\ UNCHANGED <<pipeline_vars, escalation_vars, budget_vars, text_vars, percentile_vars, memory_api_vars, retention_vars>>

RecordFeedback(user_id, rating) ==
    /\ NoReportPending
    /\ Len(met_interactions) + Len(met_feedback) < MaxRecorded
    /\ met_feedback' =
           Append(met_feedback,
                  [user_id |-> user_id, rating |-> rating, date |-> met_today])
    /\ UNCHANGED <<met_today, met_interactions, met_report>>
    /\ UNCHANGED <<pipeline_vars, escalation_vars, budget_vars, text_vars, percentile_vars, memory_api_vars, retention_vars>>

\* midnight passes
NextDay ==
    /\ NoReportPending
    /\ met_today < MaxDay
    /\ met_today' = met_today + 1
    /\ UNCHANGED <<met_interactions, met_feedback, met_report>>
    /\ UNCHANGED <<pipeline_vars, escalation_vars, budget_vars, text_vars, percentile_vars, memory_api_vars, retention_vars>>

GetMetrics(days) ==
    /\ NoReportPending
    /\ \E tie \in Ties :
           met_report' = get_metrics(met_interactions, met_feedback, met_today,
                                     days, tie)
    /\ UNCHANGED <<met_today, met_interactions, met_feedback>>
    /\ UNCHANGED <<pipeline_vars, escalation_vars, budget_vars, text_vars, percentile_vars, memory_api_vars, retention_vars>>

\* the caller has the report
ReturnMetrics ==
    /\ ~NoReportPending
    /\ met_report' = NoMetrics
    /\ UNCHANGED <<met_today, met_interactions, met_feedback>>
    /\ UNCHANGED <<pipeline_vars, escalation_vars, budget_vars, text_vars, percentile_vars, memory_api_vars, retention_vars>>

NextMetrics ==
    \/ \E sample \in Samples : RecordInteraction(sample)
    \/ \E user_id \in Users, rating \in Ratings : RecordFeedback(user_id, rating)
    \/ NextDay
    \/ \E days \in RequestedDays : GetMetrics(days)
    \/ ReturnMetrics

SpecMetrics == InitMetrics /\ [][NextMetrics]_vars

(***************************************************************************)
(* MetricsCollector.record_interaction, record_feedback and clear_old_data *)
(* with the time of day.  A timestamp counts the half days since the start *)
(* of day 0, so that a day has a morning and an afternoon; the date of a   *)
(* timestamp is the day it falls on.                                       *)
(***************************************************************************)
TicksPerDay == 2

\* timestamp.date()
DateOf(timestamp) == timestamp \div TicksPerDay

\* the last timestamp of the model
LastTick == (MaxDay + 1) * TicksPerDay - 1

\* days_to_keep: nothing but the present, one day, the default
DaysToKeep == {0, 1, 90}

\* the filter on interactions and on feedback (lines 422-431): the full
\* timestamps are compared
Recent(entries, cutoff_date) ==
    SelectSeq(entries, LAMBDA e : e.timestamp >= cutoff_date)

\* the filter on daily_stats (lines 434-438): the dates are compared
clean_daily_stats(stats, cutoff_date) ==
    [d \in {date \in DOMAIN stats : date >= DateOf(cutoff_date)} |-> stats[d]]

InitRetention ==
    /\ PipelineIdle
    /\ EscalationIdle
    /\ BudgetIdle
    /\ TextIdle
    /\ PercentileIdle
    /\ MetricsIdle
    /\ MemoryApiIdle
    /\ RetentionIdle

\* half a day passes
Tick ==
    /\ ret_now < LastTick
    /\ ret_now' = ret_now + 1
    /\ UNCHANGED <<ret_interactions, ret_feedback, ret_daily_stats>>
    /\ UNCHANGED <<pipeline_vars, escalation_vars, budget_vars, text_vars, percentile_vars,
                   metrics_vars, memory_api_vars>>

\* record_interaction without a timestamp, as chat_with_bot calls it
RecordInteractionNow(escalated) ==
    /\ Len(ret_interactions) + Len(ret_feedback) < MaxRecorded
    /\ ret_interactions' =
           Append(ret_interactions,
                  [timestamp |-> ret_now, date |-> DateOf(ret_now),
                   escalated |-> escalated])
    /\ ret_daily_stats' =
           record_interaction(ret_daily_stats, DateOf(ret_now), escalated)
    /\ UNCHANGED <<ret_now, ret_feedback>>
    /\ UNCHANGED <<pipeline_vars, escalation_vars, budget_vars, text_vars, percentile_vars,
                   metrics_vars, memory_api_vars>>

\* record_feedback (lines 71-92)
RecordFeedbackNow ==
    /\ Len(ret_interactions) + Len(ret_feedback) < MaxRecorded
    /\ ret_feedback' =
           Append(ret_feedback, [timestamp |-> ret_now, date |-> DateOf(ret_now)])
    /\ UNCHANGED <<ret_now, ret_interactions, ret_daily_stats>>
    /\ UNCHANGED <<pipeline_vars, escalation_vars, budget_vars, text_vars, percentile_vars,
                   metrics_vars, memory_api_vars>>

ClearOldData(days_to_keep) ==
    LET cutoff_date == ret_now - days_to_keep * TicksPerDay
    IN  /\ ret_interactions' = Recent(ret_interactions, cutoff_date)
        /\ ret_feedback' = Recent(ret_feedback, cutoff_date)
        /\ ret_daily_stats' = clean_daily_stats(ret_daily_stats, cutoff_date)
        /\ UNCHANGED ret_now
        /\ UNCHANGED <<pipeline_vars, escalation_vars, budget_vars, text_vars, percentile_vars,
                   metrics_vars, memory_api_vars>>

NextRetention ==
    \/ Tick
    \/ \E escalated \in BOOLEAN : RecordInteractionNow(escalated)
    \/ RecordFeedbackNow
    \/ \E days_to_keep \in DaysToKeep : ClearOldData(days_to_keep)

SpecRetention == InitRetention /\ [][NextRetention]_vars

(***************************************************************************)
(* Properties.                                                             *)
(***************************************************************************)
\* the chatbot instance an entry point uses
ChatbotOf(entry) == IF entry = "http" THEN "routes" ELSE "manager"

\* the stored history of a user
Stored(chatbot, user_id) ==
    get_conversation_history(conversation_memory[chatbot], user_id)

\* the stored history of the user of call i
StoredOf(i) == Stored(ChatbotOf(calls[i].entry), calls[i].user_id)

\* the positions of the turn that call id appended with the given role
Positions(history, id, role) ==
    {p \in 1..Len(history) : history[p].turn = id /\ history[p].role = role}

HasTurn(history, id, role) == Positions(history, id, role) # {}

\* process_message of call i returns in this step
Returns(i) ==
    /\ i \in 1..Len(calls')
    /\ calls'[i].pc = "returned"
    /\ (i > Len(calls) \/ calls[i].pc # "returned")

\* C1: for every user, the stored history never holds more than
\* max_context_messages turns, the state after the assistant turn included
C1_HistoryWithinCap ==
    \A c \in Chatbots : \A u \in DOMAIN conversation_memory[c] :
        Len(conversation_memory[c][u]) <= max_context_messages

\* C2: when process_message returns, the user's memory holds both the turn's
\* user message and its assistant reply, or neither of them
C2_BothOrNeither ==
    [][\A i \in 1..MaxCalls :
          Returns(i) =>
              (HasTurn(StoredOf(i)', i, "user") <=> HasTurn(StoredOf(i)', i, "assistant"))
      ]_vars

\* the completion request of call i ends with a typed failure in this step
FailedReturn(i) == Returns(i) /\ calls'[i].completion \in Failures

\* the assistant turn that holds the fallback text of call i
FallbackTurn(i) ==
    [role |-> "assistant", content |-> generate_response(calls'[i].completion),
     turn |-> i]

C4_FailureIndicated ==
    \A i \in 1..Len(calls) :
        (calls[i].pc = "returned" /\ calls[i].completion \in Failures) =>
            (calls[i].result.response_type = "error" \/ calls[i].result.error)

\* C5: a user's stored turns are in submission order: the turns of an earlier
\* call before those of a later call, and each call's user turn before its
\* assistant turn
C5_SubmissionOrder ==
    \A c \in Chatbots : \A u \in DOMAIN conversation_memory[c] :
        LET h == conversation_memory[c][u]
        IN  \A p, q \in 1..Len(h) :
                p < q =>
                    \/ h[p].turn < h[q].turn
                    \/ (h[p].turn = h[q].turn /\ h[p].role = "user"
                                              /\ h[q].role = "assistant")

\* this step is process_message or clear_conversation_history of user a on
\* chatbot c
ActsFor(c, a) ==
    \/ c = "routes" /\ \E m \in HttpMessages : ChatWithBot(a, m)
    \/ c = "routes" /\ \E i \in 1..Len(calls), o \in Outcomes :
                           calls[i].user_id = a /\ ChatWithBotResume(i, o)
    \/ c = "manager" /\ \E m \in Messages : HandleMessage(a, m)
    \/ c = "manager" /\ \E i \in 1..Len(calls), o \in Outcomes :
                           calls[i].user_id = a /\ HandleMessageResume(i, o)
    \/ ClearConversationHistory(c, a)

\* the entry of user b on chatbot d is the same before and after the step
SameEntry(d, b) ==
    /\ (b \in DOMAIN conversation_memory'[d]) = (b \in DOMAIN conversation_memory[d])
    /\ Stored(d, b)' = Stored(d, b)

\* C6: process_message and clear_conversation_history of a user leave the
\* stored history of every other user unchanged, under any interleaving
C6_OtherUsersUnchanged ==
    [][\A c \in Chatbots, a \in Users :
          ActsFor(c, a) =>
              \A d \in Chatbots, b \in Users :
                  (d # c \/ b # a) => SameEntry(d, b)
      ]_vars

\* alice was served and then cleared while bob's turn is suspended in its
\* completion request; bob's history still holds his turn
C6_Witness ==
    \E i, j \in 1..Len(calls) :
        /\ calls[i].user_id = "alice" /\ calls[i].entry = "http"
        /\ calls[j].user_id = "bob" /\ calls[j].entry = "http"
        /\ calls[j].pc = "completion"
        /\ "alice" \notin DOMAIN conversation_memory["routes"]
        /\ HasTurn(Stored("routes", "bob"), j, "user")

\* C7 as stated: every stored assistant turn has a user turn at an earlier
\* position of the stored history
C7_AssistantAfterStoredUser ==
    \A c \in Chatbots : \A u \in DOMAIN conversation_memory[c] :
        LET h == conversation_memory[c][u]
        IN  \A q \in 1..Len(h) :
                h[q].role = "assistant" =>
                    \E p \in 1..(q - 1) : h[p].role = "user"

\* C7 as amended: an assistant turn is appended only behind a user turn (the
\* history it is appended to holds a user turn at an earlier position), and
\* every stored history holds at least one user turn; truncation may later
\* drop the user turns before an assistant turn
C7_AssistantAppendedAfterUser ==
    /\ [](\A c \in Chatbots : \A u \in DOMAIN conversation_memory[c] :
             \E p \in 1..Len(conversation_memory[c][u]) :
                 conversation_memory[c][u][p].role = "user")
    /\ [][\A c \in Chatbots : \A u \in DOMAIN conversation_memory'[c] :
             LET h == conversation_memory'[c][u]
             IN  (/\ Stored(c, u) # h
                  /\ Len(h) > 0
                  /\ h[Len(h)].role = "assistant") =>
                     \E p \in 1..(Len(h) - 1) : h[p].role = "user"
         ]_vars

\* a stored history that truncation has left with an assistant turn first
C7_Witness ==
    \E c \in Chatbots : \E u \in DOMAIN conversation_memory[c] :
        LET h == conversation_memory[c][u]
        IN  /\ Len(h) >= 2
            /\ h[1].role = "assistant"
            /\ h[2].role = "user"

\* the message holds the keyword, letter case ignored
HoldsKeyword(message, keyword) ==
    \E i \in 0..(Len(message) - Len(keyword)) :
        \A j \in 1..Len(keyword) :
            LowerChar(message[i + j]) = LowerChar(keyword[j])

\* C8: should_escalate returns true for every message that holds a configured
\* escalation keyword as a substring in any letter case, whatever the history
C8_KeywordAlwaysEscalates ==
    (/\ esc_result # "unset"
     /\ \E k \in 1..Len(knowledge_base.escalation_keywords) :
            HoldsKeyword(esc_message, knowledge_base.escalation_keywords[k]))
    => esc_result = "true"

\* "xMANAGERx" on an empty history escalates
C8_Witness ==
    /\ esc_result = "true"
    /\ esc_history = <<>>
    /\ esc_message = <<"x","M","A","N","A","G","E","R","x">>

\* the FAQs each message matches: a word of the question that is longer than
\* 3 characters occurs in the message, letter case ignored
FaqHits ==
    [m \in Messages |->
        {f \in 1..Len(knowledge_base.faqs) :
            \E w \in Range(Split(knowledge_base.faqs[f].question)) :
                Len(w) > 3 /\ HoldsKeyword(Text[m], w)}] @@ <<>>

\* the message matches an FAQ of the knowledge base
KbMatch(m) == FaqHits[m] # {}

\* the answer of the first FAQ the message matches
FirstMatchingAnswer(m) ==
    [kind |-> "faq_answer",
     arg  |-> knowledge_base.faqs[CHOOSE f \in FaqHits[m] :
                                     \A g \in FaqHits[m] : f <= g].answer]

\* the completion requests call i has made
Requests(i) == IF calls[i].completion = "not_called" THEN 0 ELSE 1

\* C9 as stated: when a knowledge-base match exists, the completion service is
\* not called and the reply is the answer of the first matching FAQ
C9_KbMatchAnswersFromFaq ==
    \A i \in 1..Len(calls) :
        (calls[i].pc = "returned" /\ KbMatch(calls[i].message)) =>
            /\ Requests(i) = 0
            /\ calls[i].result.response = FirstMatchingAnswer(calls[i].message)

\* C9 as amended: a turn calls the completion service at most once, and only
\* when it is not escalated and its message matches no FAQ; when the turn is
\* not escalated and a match exists, the service is not called and the stored
\* assistant reply is the answer of the first matching FAQ
C9_CompletionOnlyWithoutKbMatch ==
    /\ [](\A i \in 1..Len(calls) :
             /\ Requests(i) <= 1
             /\ Requests(i) = 1 =>
                   (~KbMatch(calls[i].message) /\ ~calls[i].result.escalated)
             /\ (calls[i].pc = "returned" /\ calls[i].result.escalated) =>
                   Requests(i) = 0
             /\ (/\ calls[i].pc = "returned"
                 /\ ~calls[i].result.escalated
                 /\ KbMatch(calls[i].message)) =>
                   /\ Requests(i) = 0
                   /\ calls[i].result.response = FirstMatchingAnswer(calls[i].message))
    /\ [][\A i \in 1..MaxCalls :
             (/\ Returns(i)
              /\ ~calls'[i].result.escalated
              /\ KbMatch(calls'[i].message)) =>
                 LET h == StoredOf(i)'
                 IN  /\ Len(h) > 0
                     /\ h[Len(h)] = [role |-> "assistant",
                                     content |-> FirstMatchingAnswer(calls'[i].message),
                                     turn |-> i]
         ]_vars

\* "cancel my return" matches the second and the third FAQ; the answer of the
\* second is stored and no completion request was made
C9_Witness ==
    \E i \in 1..Len(calls) :
        /\ calls[i].message = "cancel my return"
        /\ calls[i].pc = "returned"
        /\ Requests(i) = 0
        /\ FaqHits[calls[i].message] = {2, 3}
        /\ Len(StoredOf(i)) > 0
        /\ StoredOf(i)[Len(StoredOf(i))].content =
              [kind |-> "faq_answer", arg |-> knowledge_base.faqs[2].answer]
        /\ \E j \in 1..Len(calls) : Requests(j) = 1

\* C10: every turn the pipeline processed, from either entry point, has
\* exactly one recorded sample
C10_OneSamplePerTurn ==
    \A i \in 1..Len(calls) :
        calls[i].pc = "returned" =>
            Cardinality({k \in 1..Len(interactions) : interactions[k].call = i}) = 1

(***************************************************************************)
(* The context budgeter.                                                   *)
(***************************************************************************)
\* the payload of the completion request is assigned
PayloadSent == bud_payload # Unset

\* the history turns as role-tagged segments, in their stored order
HistorySegments ==
    [i \in 1..Len(bud_request.conversation_history) |->
        [role    |-> bud_request.conversation_history[i].role,
         content |-> bud_request.conversation_history[i].content]]

\* s is what is left of t when some of its first elements are dropped
IsSuffix(s, t) ==
    /\ Len(s) <= Len(t)
    /\ \A i \in 1..Len(s) : s[i] = t[Len(t) - Len(s) + i]

\* C11: the payload sent to the completion service starts with the system
\* prompt, ends with the current message, and holds between them a
\* contiguous suffix of the history turns in their order
C11_PayloadShape ==
    PayloadSent =>
        LET n == Len(bud_payload)
        IN  /\ n >= 2
            /\ bud_payload[1] =
                  [role |-> "system", content |-> bud_request.system_prompt]
            /\ bud_payload[n] =
                  [role |-> "user", content |-> bud_request.message]
            /\ IsSuffix(SubSeq(bud_payload, 2, n - 1), HistorySegments)

\* a payload from which the trimming removed some history turns and kept
\* others
C11_Witness ==
    /\ PayloadSent
    /\ Len(bud_payload) < Len(bud_messages)
    /\ Len(bud_payload) > 2

\* the estimate of the system prompt and the current message alone exceeds
\* the input budget
AloneOverBudget ==
    FloatGreater(
        FloatAdd(FloatTimesInt(TokensPerWord, bud_request.system_prompt.words),
                 FloatTimesInt(TokensPerWord, bud_request.message.words)),
        FloatOfInt(ModelWindow - bud_request.max_tokens))

\* C12: when the system prompt and the current message alone exceed the
\* input budget, no payload is sent (a configuration error is raised
\* instead)
C12_OverBudgetSurfaced ==
    AloneOverBudget => ~PayloadSent

\* the estimate of a payload as _manage_token_count first computes it is
\* within the input budget
WithinBudget(messages) ==
    ~FloatGreater(total_tokens(messages),
                  FloatOfInt(ModelWindow - bud_request.max_tokens))

\* C13: trimming a fitting payload changes nothing, and trimming the
\* trimmed payload again changes nothing
C13_TrimIdempotent ==
    PayloadSent =>
        /\ WithinBudget(bud_messages) => bud_payload = bud_messages
        /\ _manage_token_count(bud_payload, bud_request.max_tokens) = bud_payload

(***************************************************************************)
(* The analysis of one message.                                            *)
(***************************************************************************)
\* how many words of the message are alternatives of registry entry k; no
\* two words of the vocabulary make up an alternative of two words, and no
\* alternative is part of a longer word of the vocabulary
WordHits(message, k) ==
    LET words == Split(Lower(message))
        alts  == UNION {Range(intent_patterns[k].patterns[p]) :
                        p \in 1..Len(intent_patterns[k].patterns)}
    IN  Cardinality({i \in 1..Len(words) : words[i] \in alts})

\* the hits of every registry entry
HitsOf(message) ==
    [k \in 1..Len(intent_patterns) |-> WordHits(message, k)]

\* the registry entries with the most hits
TopEntries(hits) ==
    {k \in DOMAIN hits : \A j \in DOMAIN hits : hits[j] <= hits[k]}

\* C14: classify_intent returns the first-declared category among those
\* with the most hits, and general exactly when no category has a hit
C14_FirstDeclaredWins ==
    txt_pc \in {"classified", "extracted"} =>
        LET hits == HitsOf(txt_message)
            top  == TopEntries(hits)
        IN  IF \A k \in DOMAIN hits : hits[k] = 0
            THEN txt_intent = "general"
            ELSE \E k \in top :
                    /\ \A j \in top : k <= j
                    /\ txt_intent = intent_patterns[k].intent

\* a classified message in which several categories tie with a hit each
C14_Witness ==
    /\ txt_pc = "classified"
    /\ LET hits == HitsOf(txt_message)
       IN  /\ \E k \in DOMAIN hits : hits[k] > 0
           /\ Cardinality(TopEntries(hits)) >= 2

\* the categories of extract_entities
EntityCategories ==
    {"order_numbers", "emails", "phone_numbers", "amounts", "dates", "products"}

\* C15: every category present in the result of extract_entities holds a
\* non-empty list
C15_PresentKeysNonEmpty ==
    txt_pc = "extracted" =>
        /\ DOMAIN txt_entities \subseteq EntityCategories
        /\ \A key \in DOMAIN txt_entities : Len(txt_entities[key]) >= 1

\* a result with a category present and another absent
C15_Witness ==
    /\ txt_pc = "extracted"
    /\ "amounts" \in DOMAIN txt_entities
    /\ "emails" \notin DOMAIN txt_entities

\* where item first occurs in the message, letter case aside
FirstOccurrence(message, item) ==
    CHOOSE i \in 1..Len(message) :
        /\ SubSeq(Upper(message), i, i + Len(item) - 1) = Upper(item)
        /\ \A j \in 1..(i - 1) :
              SubSeq(Upper(message), j, j + Len(item) - 1) # Upper(item)

\* C16: in every category the extracted items are in the order of their
\* first occurrence in the message
C16_FirstOccurrenceOrder ==
    txt_pc = "extracted" =>
        \A key \in DOMAIN txt_entities :
            \A i, j \in 1..Len(txt_entities[key]) :
                i < j => FirstOccurrence(txt_message, txt_entities[key][i])
                         <= FirstOccurrence(txt_message, txt_entities[key][j])

(***************************************************************************)
(* The length rule of should_escalate.                                     *)
(***************************************************************************)
\* a rule other than the length rule fires
OtherRuleFires ==
    \/ KeywordRule(Lower(esc_message), knowledge_base)
    \/ FrustrationRule(Lower(esc_message))
    \/ RepeatedIssueRule(esc_history)

\* C17: should_escalate returns true on every history of more than 10
\* turns, and on a history of exactly 10 turns it returns true only when
\* another rule fires
C17_LengthRule ==
    esc_result # "unset" =>
        /\ Len(esc_history) > 10 => esc_result = "true"
        /\ (Len(esc_history) = 10 /\ ~OtherRuleFires) => esc_result = "false"

\* a history of 11 turns escalated by the length rule alone
C17_Witness ==
    /\ esc_result = "true"
    /\ Len(esc_history) = 11
    /\ ~OtherRuleFires

(***************************************************************************)
(* Percentiles.                                                            *)
(***************************************************************************)
\* p/100 * (n - 1) is a whole number
IntegralIndex == (pct_percentile * (Len(pct_data) - 1)) % 100 = 0

\* the element at an integral index, or else the interpolation between the
\* elements at the floor and at the ceiling of the index weighted by its
\* fractional part; in 1/100000 of a second
ExactPercentile ==
    LET n     == Len(pct_data)
        floor == (pct_percentile * (n - 1)) \div 100
        frac  == (pct_percentile * (n - 1)) % 100
    IN  IF frac = 0
        THEN pct_data[floor + 1] * 100
        ELSE pct_data[floor + 1] * (100 - frac) + pct_data[floor + 2] * frac

PercentileReturned == pct_pc = "returned" /\ pct_data # <<>>

\* C18 as stated: _percentile returns the element at an integral index and
\* else the interpolated value
C18_ExactInterpolation ==
    PercentileReturned => pct_value * 1000 = ExactPercentile

\* C18: _percentile returns, rounded to two decimals, the element at an
\* integral index and else the interpolated value; so p=0 gives the rounded
\* minimum, p=100 the rounded maximum and [1,2,3,4,5] with p=50 gives 3
C18_RoundedInterpolation ==
    PercentileReturned =>
        /\ pct_value * 1000 - ExactPercentile \in -500..500
        /\ pct_percentile = 0 =>
              pct_value * 1000 - pct_data[1] * 100 \in -500..500
        /\ pct_percentile = 100 =>
              pct_value * 1000 - pct_data[Len(pct_data)] * 100 \in -500..500
        /\ (pct_data = <<1000, 2000, 3000, 4000, 5000>> /\ pct_percentile = 50) =>
              pct_value = 300

\* an interpolated percentile that the rounding changes
C18_Witness ==
    /\ PercentileReturned
    /\ ~IntegralIndex
    /\ ExactPercentile % 1000 # 0
    /\ pct_value > 0

(***************************************************************************)
(* The report of get_metrics.                                              *)
(***************************************************************************)
\* get_metrics has computed a report
ReportReady == met_report # NoMetrics

\* the recorded samples whose date lies in the period of the report
InScope ==
    {i \in 1..Len(met_interactions) :
        /\ met_report.period.start_date <= met_interactions[i].date
        /\ met_interactions[i].date <= met_report.period.end_date}

ScopeTimes == {met_interactions[i].response_time : i \in InScope}

\* in tenths
ReportedConsistency == met_report.quality_indicators.response_consistency

\* C19: the reported consistency score lies in [0, 100], and it is 100 with
\* fewer than two samples in scope (one or none), with a mean response time
\* of 0 and with response times that are all the same
C19_ConsistencyConvention ==
    ReportReady =>
        /\ ReportedConsistency \in 0..1000
        /\ (\/ Cardinality(InScope) < 2
            \/ ScopeTimes \subseteq {0}
            \/ Cardinality(ScopeTimes) <= 1) => ReportedConsistency = 1000

\* C20: with no recorded sample in the requested window get_metrics returns
\* the zero structure (all counts 0, no percentiles, empty breakdowns, feedback
\* zeros); _percentile of an empty list is 0 and the analysis of no feedback
\* is all zeros
C20_EmptyWindowZeroStructure ==
    /\ \A p \in Percentiles, tie \in Ties : _percentile(<<>>, p, tie) = 0
    /\ _analyze_feedback(<<>>) =
           [average_rating |-> 0, total_feedback |-> 0,
            rating_distribution |-> <<>>, satisfaction_rate |-> 0]
    /\ (ReportReady /\ InScope = {}) =>
           /\ met_report.overview =
                  [total_interactions |-> 0, unique_users |-> 0,
                   average_response_time |-> 0, escalation_rate |-> 0,
                   avg_interactions_per_user |-> 0]
           /\ met_report.performance.response_time_percentiles = <<>>
           /\ met_report.performance.total_escalations = 0
           /\ met_report.intent_analysis.top_intents = <<>>
           /\ met_report.intent_analysis.intent_distribution = <<>>
           /\ met_report.temporal_analysis.daily_breakdown = <<>>
           /\ met_report.feedback.average_rating = 0
           /\ met_report.feedback.total_feedback = 0
           /\ met_report.feedback.rating_distribution = <<>>

\* a report over a window of at least one day that holds none of the samples
\* and none of the feedback recorded before it
C20_Witness ==
    /\ ReportReady
    /\ met_report.period.days >= 1
    /\ met_interactions # <<>>
    /\ met_feedback # <<>>
    /\ InScope = {}
    /\ met_report.overview.total_interactions = 0

(***************************************************************************)
(* The life of a conversation entry.                                       *)
(***************************************************************************)
\* the step is the call of op for user u
Calls(op, u) ==
    /\ api_call = NoApiCall
    /\ api_call'.op = op
    /\ api_call'.user_id = u

\* the step starts a turn of user u
StartsTurn(u) ==
    /\ Len(calls') = Len(calls) + 1
    /\ calls'[Len(calls')].user_id = u

\* C21: a user's entry is created only by a message of that user and removed
\* only by clear_conversation_history; clear returns true exactly when an
\* entry existed and leaves none, so that the history then reads as empty and
\* a second clear returns false; reading the history or the summary changes
\* nothing
C21_EntryLifecycle ==
    [][\A u \in Users :
          LET had == u \in DOMAIN conversation_memory["routes"]
              has == u \in DOMAIN conversation_memory'["routes"]
          IN  /\ (~had /\ has) => StartsTurn(u)
              /\ (had /\ ~has) => (Calls("clear", u) /\ api_call'.result = TRUE)
              /\ Calls("clear", u) => (api_call'.result = had /\ ~has)
              /\ Calls("history", u) =>
                     /\ conversation_memory' = conversation_memory
                     /\ ~had => api_call'.result = <<>>
                     /\ had => api_call'.result = conversation_memory["routes"][u]
              /\ Calls("summary", u) =>
                     /\ conversation_memory' = conversation_memory
                     /\ ~had => api_call'.result.message_count = 0
      ]_vars

\* a user whose turn was answered and stored has no entry any more, and a
\* further clear has just returned false
C21_Witness ==
    /\ api_call.op = "clear"
    /\ api_call.result = FALSE
    /\ api_call.user_id \notin DOMAIN conversation_memory["routes"]
    /\ \E i \in 1..Len(calls) :
          /\ calls[i].user_id = api_call.user_id
          /\ calls[i].pc = "returned"
          /\ calls[i].result.response_type # "error"

(***************************************************************************)
(* The user turn of process_message.                                       *)
(***************************************************************************)
\* process_message of call i starts in this step
Starts(i) ==
    /\ Len(calls) = i - 1
    /\ Len(calls') = i
    /\ calls'[i].pc # "skipped"

\* the user turn call i appends
UserTurn(i) ==
    [role |-> "user", content |-> UserContent(calls'[i].message), turn |-> i]

\* the history up to the user turn of call i, the turn included: what the
\* user's entry holds when lines 84-93 are done
UpToUserTurn(history, i) ==
    IF HasTurn(history, i, "user")
    THEN SubSeq(history, 1, CHOOSE p \in Positions(history, i, "user") : TRUE)
    ELSE <<>>

\* the last n elements of a sequence, all of them when it has fewer
LastN(seq, n) ==
    IF Len(seq) <= n THEN seq ELSE SubSeq(seq, Len(seq) - n + 1, Len(seq))

\* C22: the append of a user turn and the truncation are one step: no state
\* shows a history whose user turn lies beyond the cap, and a turn that
\* starts finds the length the previous append left behind, also when
\* another turn of the same user is suspended
C22_AppendTruncateAtomic ==
    /\ [](\A c \in Chatbots : \A u \in DOMAIN conversation_memory[c] :
             \A p \in 1..Len(conversation_memory[c][u]) :
                 conversation_memory[c][u][p].role = "user" =>
                     p <= max_context_messages)
    /\ [][\A i \in 1..MaxCalls :
             Starts(i) =>
                 LET before == Stored(ChatbotOf(calls'[i].entry), calls'[i].user_id)
                     after  == UpToUserTurn(StoredOf(i)', i)
                 IN  /\ after # <<>>
                     /\ Len(after) <= max_context_messages
                     /\ Len(after) = (IF Len(before) < max_context_messages
                                      THEN Len(before) + 1
                                      ELSE max_context_messages)
         ]_vars

\* two turns of one user are suspended at the same time and their user turns
\* fill the history to the cap
C22_Witness ==
    \E i, j \in 1..Len(calls) :
        /\ i < j
        /\ calls[i].user_id = calls[j].user_id
        /\ calls[i].entry = calls[j].entry
        /\ calls[i].pc = "completion"
        /\ calls[j].pc = "completion"
        /\ Len(StoredOf(j)) = max_context_messages
        /\ HasTurn(StoredOf(j), i, "user")
        /\ HasTurn(StoredOf(j), j, "user")

\* the turns of the second history that the first does not hold, in order
Added(before, after) ==
    SelectSeq(after, LAMBDA t : t \notin Range(before))

\* C25: right after a user turn is appended the stored history is the last
\* max_context_messages turns of the history with the turn appended, in
\* their order; every step leaves every stored history a contiguous suffix
\* of what it held followed by the turns the step appended, so that the
\* history is a suffix of all turns appended since the last clear
C25_OldestDroppedFirst ==
    [][/\ \A i \in 1..MaxCalls :
             Starts(i) =>
                 LET before == Stored(ChatbotOf(calls'[i].entry), calls'[i].user_id)
                 IN  UpToUserTurn(StoredOf(i)', i) =
                         LastN(Append(before, UserTurn(i)), max_context_messages)
       /\ \A c \in Chatbots : \A u \in DOMAIN conversation_memory'[c] :
             LET before == Stored(c, u)
                 after  == conversation_memory'[c][u]
             IN  /\ IsSuffix(after, before \o Added(before, after))
                 /\ Len(Added(before, after)) <= 2
      ]_vars

\* the third turn of a user pushed the first out: the history starts with
\* the reply of an earlier call and ends with a later user turn
C25_Witness ==
    \E c \in Chatbots : \E u \in DOMAIN conversation_memory[c] :
        LET h == conversation_memory[c][u]
        IN  /\ Len(h) = max_context_messages
            /\ h[1].role = "assistant"
            /\ h[Len(h)].role = "user"
            /\ h[1].turn < h[Len(h)].turn
            /\ ~HasTurn(h, h[1].turn, "user")

\* C26: the history process_message passes to should_escalate holds at most
\* max_context_messages turns, so that with a cap of at most 10 the length
\* rule does not fire and a turn of the pipeline escalates only by another
\* rule
C26_LengthRuleNeverInPipeline ==
    [][\A i \in 1..MaxCalls :
          Starts(i) =>
              LET passed == UpToUserTurn(StoredOf(i)', i)
              IN  /\ Len(passed) <= max_context_messages
                  /\ max_context_messages <= 10 => ~LengthRule(passed)
                  /\ (max_context_messages <= 10 /\ calls'[i].pc = "returned"
                      /\ calls'[i].result.escalated) =>
                         \/ MessageRules(Text[calls'[i].message], knowledge_base)
                         \/ RepeatedIssueRule(passed)
      ]_vars

\* an escalated turn whose history was cut to the cap: it starts with the
\* reply of an earlier turn
C26_Witness ==
    \E i \in 1..Len(calls) :
        /\ calls[i].pc = "returned"
        /\ calls[i].result.escalated
        /\ Len(UpToUserTurn(StoredOf(i), i)) = max_context_messages
        /\ UpToUserTurn(StoredOf(i), i)[1].role = "assistant"

\* the completion request of suspended call i ends in this step
Resumes(i) ==
    /\ i \in 1..Len(calls)
    /\ calls[i].pc = "completion"
    /\ calls'[i].pc = "returned"

\* C27: when the entry of a suspended turn's user is gone as the completion
\* request ends (it was cleared and no turn of the user recreated it), the
\* turn returns the error response and the user still has no entry
C27_ClearedTurnEndsInError ==
    [][\A i \in 1..MaxCalls :
          (/\ Resumes(i)
           /\ calls[i].user_id \notin
                  DOMAIN conversation_memory[ChatbotOf(calls[i].entry)]) =>
              /\ calls'[i].result.response_type = "error"
              /\ calls'[i].result.error
              /\ calls[i].user_id \notin
                     DOMAIN conversation_memory'[ChatbotOf(calls[i].entry)]
      ]_vars

\* a turn that was suspended returned the error response and its user has no
\* entry
C27_Witness ==
    \E i \in 1..Len(calls) :
        /\ calls[i].pc = "returned"
        /\ calls[i].completion \in Outcomes
        /\ calls[i].result.response_type = "error"
        /\ calls[i].user_id \notin DOMAIN conversation_memory[ChatbotOf(calls[i].entry)]

\* the system prompt of _create_system_prompt
SystemPrompt == [kind |-> "system_prompt", arg |-> "You are a helpful customer support assistant"]

\* call i suspends in its completion request in this step
Suspends(i) == Starts(i) /\ calls'[i].pc = "completion"

\* C28: when a turn reaches the completion service, the history that
\* _generate_response reads ends with the turn's own user message, so the
\* messages assembled from it hold that message twice, as the last history
\* segment and as the final segment
C28_CurrentMessageTwice ==
    [][\A i \in 1..MaxCalls :
          Suspends(i) =>
              LET history  == StoredOf(i)'
                  current  == UserContent(calls'[i].message)
                  messages == PrepareMessages(current, history, SystemPrompt)
                  n        == Len(messages)
              IN  /\ history # <<>>
                  /\ history[Len(history)] = UserTurn(i)
                  /\ n >= 3
                  /\ messages[n] = [role |-> "user", content |-> current]
                  /\ messages[n - 1] = messages[n]
      ]_vars

\* a suspended turn whose stored history ends with its own user message
\* behind an earlier exchange
C28_Witness ==
    \E i \in 1..Len(calls) :
        /\ calls[i].pc = "completion"
        /\ Len(StoredOf(i)) >= 2
        /\ StoredOf(i)[Len(StoredOf(i))] =
              [role |-> "user", content |-> UserContent(calls[i].message), turn |-> i]

(***************************************************************************)
(* The trimming of the payload.                                            *)
(***************************************************************************)
\* the words of all segments
RECURSIVE TotalWords(_)
TotalWords(messages) ==
    IF messages = <<>> THEN 0
    ELSE WordCount(Head(messages).content) + TotalWords(Tail(messages))

\* 1.3 x word count, summed over all segments, is at most the input budget:
\* both sides in tenths
FitsBudget(messages) ==
    13 * TotalWords(messages) <= 10 * (ModelWindow - bud_request.max_tokens)

\* the assembled messages without their k oldest history segments
WithoutOldest(k) ==
    <<bud_messages[1]>> \o SubSeq(bud_messages, 2 + k, Len(bud_messages))

\* C23: the payload is the assembled list without its oldest history
\* segments, as few of them as make the estimated cost fit the input budget,
\* or all of them when no fewer do: nothing is removed from a list that fits,
\* and the retained history is the longest suffix that fits
C23_LongestFittingSuffix ==
    PayloadSent =>
        LET history == Len(bud_messages) - 2
            removed == Len(bud_messages) - Len(bud_payload)
        IN  /\ removed \in 0..history
            /\ bud_payload = WithoutOldest(removed)
            /\ FitsBudget(bud_payload) \/ removed = history
            /\ \A k \in 0..(removed - 1) : ~FitsBudget(WithoutOldest(k))

\* C30: every segment behind the system prompt is a user or an assistant
\* segment, so each round of the trimming loop removes one segment: the loop
\* ends, after at most as many rounds as there are history segments
C30_TrimTerminates ==
    /\ bud_messages # Unset =>
           \A k \in 2..Len(bud_messages) : IsChatRole(bud_messages[k])
    /\ PayloadSent =>
           /\ bud_payload # Hangs
           /\ Len(bud_payload) >= 2
           /\ Len(bud_messages) - Len(bud_payload) \in 0..(Len(bud_messages) - 2)

\* the loop ran once for every history segment
C30_Witness ==
    /\ PayloadSent
    /\ Len(bud_messages) > 3
    /\ Len(bud_payload) = 2

(***************************************************************************)
(* The repeated-issue rule of should_escalate.                             *)
(***************************************************************************)
\* rules 1 to 3: a keyword, a frustration pattern, a history of more than 10
\* turns
RulesOneToThree ==
    \/ KeywordRule(Lower(esc_message), knowledge_base)
    \/ FrustrationRule(Lower(esc_message))
    \/ Len(esc_history) > 10

\* the intents of the user turns among the last 6 turns, all turns when the
\* history is shorter
RecentUserTurns == SelectSeq(LastN(esc_history, 6), LAMBDA t : t.role = "user")

RecentUserIntents ==
    {classify_intent(ContentText(RecentUserTurns[k].content)) :
        k \in 1..Len(RecentUserTurns)}

\* C24: when rules 1 to 3 do not fire, should_escalate returns true exactly
\* when the last 6 turns (all turns of a shorter history) hold at least 3
\* user turns that classify to one intent, which is complaint, billing or
\* returns
C24_RepeatedIssueRule ==
    (esc_result # "unset" /\ ~RulesOneToThree) =>
        (esc_result = "true" <=>
            /\ Len(RecentUserTurns) >= 3
            /\ Cardinality(RecentUserIntents) = 1
            /\ RecentUserIntents \subseteq {"complaint", "billing", "returns"})

(***************************************************************************)
(* daily_stats against the stored interactions.                            *)
(***************************************************************************)
StoredOn(d) == SelectSeq(ret_interactions, LAMBDA e : e.date = d)

\* C29: after any sequence of record_interaction and clear_old_data calls, a
\* date has a daily_stats entry exactly when an interaction of that date is
\* stored, and the entry's total_interactions and escalations are the number
\* of stored interactions of that date and of the escalated ones among them
C29_DailyStatsAgree ==
    \A d \in 0..MaxDay :
        /\ d \in DOMAIN ret_daily_stats <=> Len(StoredOn(d)) > 0
        /\ d \in DOMAIN ret_daily_stats =>
               /\ ret_daily_stats[d].total_interactions = Len(StoredOn(d))
               /\ ret_daily_stats[d].escalations =
                      Len(SelectSeq(StoredOn(d), LAMBDA e : e.escalated))
====
